---- MODULE Spec2Model ----
(***************************************************************************)
(* A model of the respondeai backend: statute extraction, the vector-store *)
(* wrapper, the answer cache, question generation and answer validation.   *)
(*                                                                         *)
(* Text is modelled as sequences.  A question or an answer is a sequence   *)
(* of one-character strings; a statute text is a sequence of tokens (an    *)
(* article header, a quoted reference to an article, a body word).         *)
(* Scores and ratios are kept in tenths (0.5 is 5, 0.8 is 8).              *)
(***************************************************************************)
EXTENDS Integers, Sequences, FiniteSets, TLC

VARIABLES
    \* document extraction
    texto, pdf_abre, artigos, fase,
    \* similarity test of two questions
    pergunta1, pergunta2, similar, faseSimilar,
    \* the search engine (index and entries) and the last two service calls
    indice_existe, store, ult, ant,
    \* background tasks accepted by the API and not yet run
    tarefas,
    \* the process environment and the settings object built from it
    environ, settings,
    \* answer requests in flight, the VectorStoreService class, the startup
    pedidos, servico, arranque

varsExtracao == <<texto, pdf_abre, artigos, fase>>
varsSimilar == <<pergunta1, pergunta2, similar, faseSimilar>>
varsStore == <<indice_existe, store, ult, ant>>
varsConfig == <<environ, settings>>
varsProcesso == <<pedidos, servico, arranque>>
\* The state an action of one component leaves alone.
foraExtracao == <<varsSimilar, varsStore, tarefas, varsConfig, varsProcesso>>
foraSimilar == <<varsExtracao, varsStore, tarefas, varsConfig, varsProcesso>>
foraStore == <<varsExtracao, varsSimilar, tarefas, varsConfig, varsProcesso>>
foraDocumentos == <<varsExtracao, varsSimilar, varsConfig, varsProcesso>>
vars == <<texto, pdf_abre, artigos, fase, pergunta1, pergunta2, similar, faseSimilar,
          indice_existe, store, ult, ant, tarefas, environ, settings,
          pedidos, servico, arranque>>

(***************************************************************************)
(* Bounds                                                                  *)
(***************************************************************************)
MaxNumero == 2      \* article numbers 1..MaxNumero
MaxTexto == 4       \* tokens in a statute text
NumPalavras == 6    \* distinct words a question is drawn from
MaxDocs == 3        \* entries in the index, vector-store specification
MaxRespostas == 2   \* answer entries the cache may come to hold
MaxQuantidade == 2  \* questions asked of one generation request
MaxCorpo == 7       \* words in the body of an article handed to criar_chunks
MaxArquivos == 2    \* files in one upload
MaxFragmentos == 2  \* pieces a theme is put together from
MaxContexto == 3    \* documents handed to the metadata re-rank
MaxTentativas == 3  \* entries into the initialization of the vector store service

(***************************************************************************)
(* Generic helpers                                                         *)
(***************************************************************************)
RECURSIVE SeqsUpTo(_, _)
SeqsUpTo(S, n) ==
    IF n = 0 THEN {<<>>}
    ELSE LET shorter == SeqsUpTo(S, n - 1)
         IN  shorter \cup {Append(s, x) : s \in {t \in shorter : Len(t) = n - 1}, x \in S}

Range(s) == {s[i] : i \in DOMAIN s}

(***************************************************************************)
(* DocumentExtractionService.processar_pdf                                 *)
(***************************************************************************)
\* A token of the page text.  "art" is the text "Art. <num>" with an optional
\* ordinal sign; aspas says that a quote character stands right before it.
TokArt(n, o, q) == [t |-> "art", num |-> n, ord |-> o, aspas |-> q]
TokPalavra == [t |-> "pal", num |-> 0, ord |-> FALSE, aspas |-> FALSE]
TokVetado == [t |-> "vetado", num |-> 0, ord |-> FALSE, aspas |-> FALSE]

Tokens ==
    {TokArt(n, o, FALSE) : n \in 1..MaxNumero, o \in BOOLEAN}
        \cup {TokArt(n, FALSE, TRUE) : n \in 1..MaxNumero}
        \cup {TokPalavra}

\* padrao_artigo: the negative lookbehind refuses a header that follows a quote.
EhCabecalho(tok) == tok.t = "art" /\ ~tok.aspas

\* re.findall(padrao_artigo, texto, re.DOTALL), scanning left to right: a header
\* opens a match, the text up to the next header (or the end) is its body, and
\* text before the first header matches nothing.
RECURSIVE correspondencia(_, _)
correspondencia(txt, acc) ==
    IF txt = <<>> THEN acc
    ELSE LET h == Head(txt)
         IN  IF EhCabecalho(h)
                THEN correspondencia(Tail(txt),
                         Append(acc, [numero_artigo |-> h, texto_artigo |-> <<>>]))
                ELSE IF acc = <<>>
                        THEN correspondencia(Tail(txt), acc)
                        ELSE correspondencia(Tail(txt),
                                 [acc EXCEPT ![Len(acc)].texto_artigo = Append(@, h)])

\* chave = f"Art. {numeracao}": the digits alone, whatever the ordinal sign.
chave(numero_artigo) == numero_artigo.num

\* First loop: contador_artigos[chave] = number of matches with that key.
contador_artigos(ms) ==
    [n \in 1..MaxNumero |-> Cardinality({i \in DOMAIN ms : chave(ms[i].numero_artigo) = n})]

\* The test that marks an occurrence as not in force.
Repetido(contador, k) == contador[k] > 1

\* Mutant: the running counter is never decremented.
Decrementa_esquecido(contador, k) == contador

\* The counter after an occurrence was marked.
Decrementa(contador, k) == [contador EXCEPT ![k] = @ - 1]

\* Mutant: the first occurrence of a number is the one kept in force.
marcar_primeiro(ms, i, contador) ==
    [j \in DOMAIN ms |->
        LET vetado == \E h \in 1..(j - 1) :
                          chave(ms[h].numero_artigo) = chave(ms[j].numero_artigo)
        IN  [numero |-> ms[j].numero_artigo,
             conteudo |-> IF vetado THEN Append(ms[j].texto_artigo, TokVetado)
                                    ELSE ms[j].texto_artigo,
             em_vigor |-> ~vetado]]

\* Second loop, one iteration per match, threading the running counter.
RECURSIVE marcar(_, _, _)
marcar(ms, i, contador) ==
    IF i > Len(ms) THEN <<>>
    ELSE LET k == chave(ms[i].numero_artigo)
             vetado == Repetido(contador, k)
             corpo == IF vetado THEN Append(ms[i].texto_artigo, TokVetado)
                                ELSE ms[i].texto_artigo
             artigo == [numero |-> ms[i].numero_artigo,
                        conteudo |-> corpo,
                        em_vigor |-> ~vetado]
         IN  <<artigo>> \o marcar(ms, i + 1, IF vetado THEN Decrementa(contador, k) ELSE contador)

processar_pdf(txt, abre) ==
    IF ~abre THEN <<>>
    ELSE LET ms == correspondencia(txt, <<>>) IN marcar(ms, 1, contador_artigos(ms))

InitExtracao ==
    /\ texto \in SeqsUpTo(Tokens, MaxTexto)
    /\ pdf_abre \in BOOLEAN
    /\ artigos = <<>>
    /\ fase = "inicio"

ProcessarPdf ==
    /\ fase = "inicio"
    /\ artigos' = processar_pdf(texto, pdf_abre)
    /\ fase' = "extraido"
    /\ UNCHANGED <<texto, pdf_abre>>
    /\ UNCHANGED foraExtracao

\* ---- claims about processar_pdf ----

\* Positions of the article headers of number n in the text, in document order.
Ocorrencias(n) == {p \in DOMAIN texto : texto[p].t = "art" /\ ~texto[p].aspas /\ texto[p].num = n}
TodasOcorrencias == UNION {Ocorrencias(n) : n \in 1..MaxNumero}
ArtigosDe(n) == {j \in DOMAIN artigos : artigos[j].numero.num = n}
TerminaVetado(a) == a.conteudo /= <<>> /\ a.conteudo[Len(a.conteudo)] = TokVetado
Extraido == fase = "extraido" /\ pdf_abre

\* C1: a text in which an article number occurs N >= 1 times yields N articles
\* of that number, exactly 1 in force and exactly N - 1 not in force, each of
\* the latter ending with the vetoed marker.
C1_UmEmVigor ==
    Extraido =>
        \A n \in 1..MaxNumero :
            LET N == Cardinality(Ocorrencias(n))
                emVigor == {j \in ArtigosDe(n) : artigos[j].em_vigor}
                vetados == {j \in ArtigosDe(n) : ~artigos[j].em_vigor}
            IN  N >= 1 =>
                    /\ Cardinality(ArtigosDe(n)) = N
                    /\ Cardinality(emVigor) = 1
                    /\ Cardinality(vetados) = N - 1
                    /\ \A j \in vetados : TerminaVetado(artigos[j])
                    /\ \A j \in emVigor : ~TerminaVetado(artigos[j])

C1_Witness ==
    /\ Extraido
    /\ \E n \in 1..MaxNumero : Cardinality(Ocorrencias(n)) >= 3
    /\ \E j \in DOMAIN artigos : ~artigos[j].em_vigor

\* The j-th article comes from the j-th header of the text.
PosicaoDe(j) ==
    CHOOSE p \in TodasOcorrencias : Cardinality({q \in TodasOcorrencias : q < p}) = j - 1

\* C2 as stated: the occurrence kept in force is the first one of its number in
\* document order, every later one is not in force.
C2_PrimeiraEmVigor ==
    Extraido =>
        /\ Len(artigos) = Cardinality(TodasOcorrencias)
        /\ \A j \in DOMAIN artigos :
               artigos[j].em_vigor <=>
                   ~\E q \in Ocorrencias(artigos[j].numero.num) : q < PosicaoDe(j)

\* C2 amended: the occurrence kept in force is the last one of its number in
\* document order, every earlier one is not in force.
C2_UltimaEmVigor ==
    Extraido =>
        /\ Len(artigos) = Cardinality(TodasOcorrencias)
        /\ \A j \in DOMAIN artigos :
               /\ artigos[j].numero = texto[PosicaoDe(j)]
               /\ artigos[j].em_vigor <=>
                      ~\E q \in Ocorrencias(artigos[j].numero.num) : q > PosicaoDe(j)

C2_Witness ==
    /\ Extraido
    /\ \E j, k \in DOMAIN artigos :
           /\ j < k
           /\ artigos[j].numero.num = artigos[k].numero.num
           /\ ~artigos[j].em_vigor
           /\ artigos[k].em_vigor

(***************************************************************************)
(* Strings: str.lower, str.upper, str.strip, str.split                     *)
(***************************************************************************)
Espaco == " "
LetrasMin ==
    <<"a", "b", "c", "d", "e", "f", "g", "h", "p", "i", "j", "k", "l", "m", "n",
      "o", "q", "r", "s", "t", "u", "v", "w", "x", "y", "z", "ç", "ã", "õ", "á",
      "é", "í", "ó", "ú", "â", "ê", "ô">>
LetrasMai ==
    <<"A", "B", "C", "D", "E", "F", "G", "H", "P", "I", "J", "K", "L", "M", "N",
      "O", "Q", "R", "S", "T", "U", "V", "W", "X", "Y", "Z", "Ç", "Ã", "Õ", "Á",
      "É", "Í", "Ó", "Ú", "Â", "Ê", "Ô">>

lower(s) ==
    [i \in DOMAIN s |->
        IF \E k \in DOMAIN LetrasMai : s[i] = LetrasMai[k]
           THEN LetrasMin[CHOOSE k \in DOMAIN LetrasMai : s[i] = LetrasMai[k]]
           ELSE s[i]]

upper(s) ==
    [i \in DOMAIN s |->
        IF \E k \in DOMAIN LetrasMin : s[i] = LetrasMin[k]
           THEN LetrasMai[CHOOSE k \in DOMAIN LetrasMin : s[i] = LetrasMin[k]]
           ELSE s[i]]

RECURSIVE lstrip(_)
lstrip(s) == IF s /= <<>> /\ s[1] = Espaco THEN lstrip(Tail(s)) ELSE s

RECURSIVE rstrip(_)
rstrip(s) ==
    IF s /= <<>> /\ s[Len(s)] = Espaco THEN rstrip(SubSeq(s, 1, Len(s) - 1)) ELSE s

strip(s) == rstrip(lstrip(s))

\* s.split(): the maximal runs of non-blank characters, in order.
RECURSIVE split_de(_, _, _)
split_de(s, atual, acc) ==
    IF s = <<>> THEN (IF atual = <<>> THEN acc ELSE Append(acc, atual))
    ELSE IF Head(s) = Espaco
            THEN split_de(Tail(s), <<>>, IF atual = <<>> THEN acc ELSE Append(acc, atual))
            ELSE split_de(Tail(s), Append(atual, Head(s)), acc)

split(s) == split_de(s, <<>>, <<>>)

(***************************************************************************)
(* PerguntasService._perguntas_similares                                   *)
(***************************************************************************)
LIMIAR_SIMILARIDADE == 8    \* the literal 0.8, in tenths

\* Mutant: a ratio equal to the limit counts as similar.
similaridade_acima_ou_igual(intersecao, uniao) ==
    IF uniao > 0 THEN 10 * intersecao >= LIMIAR_SIMILARIDADE * uniao ELSE FALSE

\* similaridade = intersecao / uniao if uniao > 0 else 0; similaridade > 0.8.
\* The quotient of two small integers is compared exactly: i/u > 8/10.
similaridade_acima(intersecao, uniao) ==
    IF uniao > 0 THEN 10 * intersecao > LIMIAR_SIMILARIDADE * uniao ELSE FALSE

perguntas_similares(p1_in, p2_in) ==
    LET p1 == strip(lower(p1_in))
        p2 == strip(lower(p2_in))
        palavras1 == Range(split(p1))
        palavras2 == Range(split(p2))
        intersecao == Cardinality(palavras1 \cap palavras2)
        uniao == Cardinality(palavras1 \cup palavras2)
    IN  IF p1 = p2 THEN TRUE ELSE similaridade_acima(intersecao, uniao)

\* The words questions are built from, and three spellings of a word list.
Vocabulario == <<<<"a">>, <<"b">>, <<"a", "b">>, <<"c">>, <<"d">>, <<"e">>, <<"f">>, <<"g">>>>

RECURSIVE Junta(_, _)
Junta(palavras, sep) ==
    IF palavras = <<>> THEN <<>>
    ELSE IF Len(palavras) = 1 THEN palavras[1]
    ELSE palavras[1] \o sep \o Junta(Tail(palavras), sep)

RECURSIVE EmOrdem(_, _)
EmOrdem(S, k) ==
    IF k > NumPalavras THEN <<>>
    ELSE (IF k \in S THEN <<Vocabulario[k]>> ELSE <<>>) \o EmOrdem(S, k + 1)

Inverte(q) == [i \in DOMAIN q |-> q[Len(q) + 1 - i]]

Frase(S) == Junta(EmOrdem(S, 1), <<Espaco>>)

InitSimilar ==
    /\ pergunta1 \in UNION {{Frase(S),
                               <<Espaco>> \o upper(Frase(S)) \o <<Espaco, Espaco>>,
                               Junta(Inverte(EmOrdem(S, 1)), <<Espaco, Espaco>>)} :
                                S \in SUBSET (1..NumPalavras)}
    /\ pergunta2 \in {Frase(S) : S \in SUBSET (1..NumPalavras)}
    /\ similar = FALSE
    /\ faseSimilar = "inicio"

Comparar ==
    /\ faseSimilar = "inicio"
    /\ similar' = perguntas_similares(pergunta1, pergunta2)
    /\ faseSimilar' = "comparado"
    /\ UNCHANGED <<pergunta1, pergunta2>>
    /\ UNCHANGED foraSimilar

\* ---- claims about _perguntas_similares ----

\* The words of s: its maximal runs of non-blank characters, lower-cased.
PalavrasDe(s) ==
    {lower(SubSeq(s, i, j)) : <<i, j>> \in
        {ij \in (DOMAIN s) \X (DOMAIN s) :
            /\ ij[1] <= ij[2]
            /\ \A k \in ij[1]..ij[2] : s[k] /= Espaco
            /\ (ij[1] = 1 \/ s[ij[1] - 1] = Espaco)
            /\ (ij[2] = Len(s) \/ s[ij[2] + 1] = Espaco)}}

\* s lower-cased, without its leading and trailing blanks.
Aparada(s) ==
    LET naoBrancos == {i \in DOMAIN s : s[i] /= Espaco}
    IN  IF naoBrancos = {} THEN <<>>
        ELSE LET primeiro == CHOOSE i \in naoBrancos : \A k \in naoBrancos : i <= k
                 ultimo == CHOOSE i \in naoBrancos : \A k \in naoBrancos : i >= k
             IN  lower(SubSeq(s, primeiro, ultimo))

Comuns == Cardinality(PalavrasDe(pergunta1) \cap PalavrasDe(pergunta2))
Todas == Cardinality(PalavrasDe(pergunta1) \cup PalavrasDe(pergunta2))

\* C4: the similarity test is true exactly when the two questions are equal
\* after lower-casing and trimming, or the Jaccard ratio of their word sets is
\* strictly above 0.8 (5 * common > 4 * all); a ratio of exactly 0.8 is no hit.
C4_JaccardEstrito ==
    faseSimilar = "comparado" =>
        (similar <=> (Aparada(pergunta1) = Aparada(pergunta2) \/ 5 * Comuns > 4 * Todas))

C4_Witness ==
    /\ faseSimilar = "comparado"
    /\ Comuns = 4 /\ Todas = 5
    /\ ~similar

(***************************************************************************)
(* VectorStoreService                                                      *)
(***************************************************************************)
RAG_TOP_K == 5
RAG_SCORE_THRESHOLD == 5    \* 0.5, in tenths

\* Scores the engine may give an entry: below, at and above the threshold.
Pontuacoes == {4, 5, 9}

\* An entry of the index: the metadata the services read back.  A field a
\* document type does not carry reads as its metadata.get default.
Entrada(tipo, pergunta, resposta_correta, dicas_estudo, em_vigor) ==
    [tipo |-> tipo, pergunta |-> pergunta, resposta_correta |-> resposta_correta,
     dicas_estudo |-> dicas_estudo, em_vigor |-> em_vigor]

\* criar_chunks: an article chunk carries no question and no answer fields.
EntradaArtigo(em_vigor) == Entrada("artigo_completo", <<>>, <<>>, "vazio", em_vigor)

\* The result of a pipeline run that did not get to indexing.
SemPipeline ==
    [iniciou |-> FALSE, chaves |-> {}, sucesso |-> FALSE, total_artigos |-> 0,
     artigos_em_vigor |-> 0, artigos_vetados |-> 0, artigos |-> <<>>,
     json_escrito |-> FALSE, json |-> <<>>, documentos |-> <<>>,
     indexou |-> FALSE]

\* The record of one service call; a field a call does not set keeps its default.
SemResposta ==
    [sucesso |-> FALSE, pergunta |-> <<>>, resposta_correta |-> <<>>,
     dicas_estudo |-> "nenhuma"]

SemChamada ==
    [op |-> "nenhuma", retorno |-> FALSE, pediu_criar |-> FALSE, falha |-> FALSE,
     k |-> 0, resultado_engine |-> <<>>, docs |-> <<>>,
     pergunta |-> <<>>, cache |-> FALSE, fonte |-> 0, llm_chamadas |-> 0,
     pipeline_sucesso |-> FALSE, gravou |-> FALSE, salvar_falhou |-> FALSE,
     salva_pontuada |-> FALSE, resposta |-> SemResposta,
     resposta_usuario |-> <<>>, http |-> 0, acertou |-> FALSE, dicas |-> "nenhuma",
     quantidade |-> 0, tipo_questao |-> "nenhum", questoes |-> <<>>,
     quantidade_gerada |-> 0, documentos |-> <<>>,
     arquivos |-> <<>>, detalhe |-> <<>>, enfileirou |-> FALSE,
     salvar_json |-> FALSE, incluir_vetados |-> FALSE, pipeline |-> SemPipeline,
     pasta_existe |-> FALSE, saida |-> 0,
     ambiente |-> <<>>, yaml |-> <<>>,
     tema |-> <<>>, query_expandida |-> <<>>, docs_vigor |-> <<>>,
     docs_geral |-> <<>>, docs_combinados |-> <<>>, entrada |-> <<>>,
     entrou |-> FALSE, temp_dir_existe |-> FALSE,
     passos |-> [conexao |-> FALSE, criou |-> FALSE, pediu_adicionar |-> FALSE,
                 ids |-> 0],
     saida_llm |-> [forma |-> "nenhuma", questoes |-> <<>>, fallback_levanta |-> FALSE],
     gerado |-> [sucesso |-> FALSE, questoes |-> <<>>, iteravel |-> TRUE,
                 invocacoes |-> 0],
     pediu_salvar |-> FALSE]

\* OpenSearchVectorSearch.similarity_search_with_score(query, k): the k best
\* entries by score, best first (equal scores: the older entry first), each
\* with its score.  sc[i] is the score the engine gives entry i for the query.
Posto(sc, i) ==
    Cardinality({j \in DOMAIN sc : sc[j] > sc[i] \/ (sc[j] = sc[i] /\ j < i)})

similarity_search_with_score(sc, k) ==
    LET n == Len(sc)
        m == IF k < n THEN k ELSE n
    IN  [p \in 1..m |->
            LET i == CHOOSE i \in 1..n : Posto(sc, i) = p - 1
            IN  <<i, sc[i]>>]

\* Mutant: only a score strictly above the threshold passes.
passa_limiar_estrito(score) == score > RAG_SCORE_THRESHOLD

\* if score >= settings.RAG_SCORE_THRESHOLD
passa_limiar(score) == score >= RAG_SCORE_THRESHOLD

RECURSIVE filtra_por_score(_)
filtra_por_score(docs_with_scores) ==
    IF docs_with_scores = <<>> THEN <<>>
    ELSE (IF passa_limiar(Head(docs_with_scores)[2])
             THEN <<Head(docs_with_scores)[1]>> ELSE <<>>)
         \o filtra_por_score(Tail(docs_with_scores))

\* buscar_similares(query, k, filtro): k defaults to RAG_TOP_K, the engine is
\* asked for the k best entries, filtro is not handed to the engine, and any
\* failure of the engine gives the empty list.  Documents are named by their
\* position in the index.
buscar_similares(sc, k_in, filtro, falha) ==
    LET k == IF k_in = 0 THEN RAG_TOP_K ELSE k_in
    IN  IF falha THEN <<>>
        ELSE filtra_por_score(similarity_search_with_score(sc, k))

\* What is kept of the call before the last one.
Resumo(c) == [op |-> c.op, retorno |-> c.retorno]

Registra(c) ==
    /\ ult' = c
    /\ ant' = Resumo(ult)

\* The same for a call no claim compares with the call before it.
RegistraUltima(c) ==
    /\ ult' = c
    /\ ant' = ant

\* Mutant: the existence check always answers no.
indice_presente_ignorado(existe) == FALSE

\* if self._client.indices.exists(index=self._index_name)
indice_presente(existe) == existe

\* criar_indice
CriarIndice ==
    /\ \E falha_exists, falha_create, criado_mesmo_assim \in BOOLEAN :
        IF falha_exists
           THEN /\ Registra([SemChamada EXCEPT !.op = "criar_indice", !.falha = TRUE])
                /\ UNCHANGED <<indice_existe, store>>
        ELSE IF indice_presente(indice_existe)
           THEN /\ Registra([SemChamada EXCEPT !.op = "criar_indice", !.retorno = TRUE])
                /\ UNCHANGED <<indice_existe, store>>
        ELSE IF falha_create
           THEN /\ Registra([SemChamada EXCEPT !.op = "criar_indice", !.pediu_criar = TRUE,
                                               !.falha = TRUE])
                /\ indice_existe' = criado_mesmo_assim
                /\ UNCHANGED store
        ELSE /\ Registra([SemChamada EXCEPT !.op = "criar_indice", !.pediu_criar = TRUE,
                                            !.retorno = TRUE])
             /\ indice_existe' = TRUE
             /\ UNCHANGED store
    /\ UNCHANGED foraStore

\* deletar_indice
DeletarIndice ==
    /\ \E falha \in BOOLEAN :
        IF falha
           THEN /\ Registra([SemChamada EXCEPT !.op = "deletar_indice", !.falha = TRUE])
                /\ UNCHANGED <<indice_existe, store>>
           ELSE /\ Registra([SemChamada EXCEPT !.op = "deletar_indice", !.retorno = TRUE])
                /\ indice_existe' = FALSE
                /\ store' = <<>>
    /\ UNCHANGED foraStore

\* adicionar_documentos: add_documents creates the index when it is missing;
\* a failure is swallowed and reported as an empty list of ids.
AdicionarDocumentos ==
    /\ Len(store) < MaxDocs
    /\ \E falha, em_vigor \in BOOLEAN :
        IF falha
           THEN /\ Registra([SemChamada EXCEPT !.op = "adicionar_documentos", !.falha = TRUE])
                /\ UNCHANGED <<indice_existe, store>>
           ELSE /\ Registra([SemChamada EXCEPT !.op = "adicionar_documentos", !.retorno = TRUE])
                /\ indice_existe' = TRUE
                /\ store' = Append(store, EntradaArtigo(em_vigor))
    /\ UNCHANGED foraStore

\* buscar_similares: the engine fails when asked to (or when the index is
\* missing); otherwise it scores every entry.
BuscarSimilares ==
    /\ \E k \in {0, 1, 2}, falha_engine \in BOOLEAN, sc \in [DOMAIN store -> Pontuacoes] :
        LET falha == falha_engine \/ ~indice_existe
            kk == IF k = 0 THEN RAG_TOP_K ELSE k
        IN  /\ Registra([SemChamada EXCEPT
                    !.op = "buscar_similares", !.k = k, !.falha = falha,
                    !.resultado_engine = IF falha THEN <<>>
                                         ELSE similarity_search_with_score(sc, kk),
                    !.docs = buscar_similares(sc, k, "nenhum", falha)])
            /\ UNCHANGED <<indice_existe, store>>
    /\ UNCHANGED foraStore

InitVectorStore ==
    /\ indice_existe = FALSE
    /\ store = <<>>
    /\ ult = SemChamada
    /\ ant = Resumo(SemChamada)

(***************************************************************************)
(* PerguntasService.responder_pergunta and the validation endpoint         *)
(***************************************************************************)
K_CACHE == 3                \* k of the cache lookup
MIN_LENGTH_PERGUNTA == 10   \* ResponderPerguntaRequest.pergunta

\* Question texts: a six-word question, ten blanks, and one too short to pass
\* request validation.
Perguntas ==
    {Junta(<<<<"a">>, <<"b">>, <<"a", "b">>, <<"c">>, <<"d">>, <<"e">>>>, <<Espaco>>),
     [i \in 1..MIN_LENGTH_PERGUNTA |-> Espaco],
     <<"a", Espaco, "b">>}

\* Field(..., min_length=10): the length alone is checked, blanks count.
pergunta_valida(q) == Len(q) >= MIN_LENGTH_PERGUNTA
PerguntasValidas == {q \in Perguntas : pergunta_valida(q)}

\* _perguntas_similares over the question texts that can meet in the cache
\* lookup: an incoming question against a stored one (an article chunk has
\* no stored question and yields the empty text).
similares ==
    [p \in PerguntasValidas, q \in PerguntasValidas \cup {<<>>} |-> perguntas_similares(p, q)]

\* What the answering chain may yield: a parsed answer, a reported failure
\* (parse error, not a mapping, any exception inside the chain), or a mapping
\* the response model refuses (a field of the wrong type).
RespostasLLM ==
    {[tipo |-> "ok", resposta_correta |-> <<"C">>, dicas_estudo |-> "dicas"],
     [tipo |-> "ok", resposta_correta |-> <<Espaco, "d">>, dicas_estudo |-> "nenhuma"],
     [tipo |-> "falha", resposta_correta |-> <<>>, dicas_estudo |-> "vazio"],
     [tipo |-> "invalido", resposta_correta |-> <<>>, dicas_estudo |-> "nenhuma"]}

\* What the engine does with one search: it fails, or it scores every entry.
Buscas(st) ==
    {[falha |-> TRUE, sc |-> [i \in DOMAIN st |-> 4]]}
        \cup {[falha |-> FALSE, sc |-> f] : f \in [DOMAIN st -> Pontuacoes]}

NumRespostas(st) == Cardinality({i \in DOMAIN st : st[i].tipo = "resposta"})

\* _salvar_resposta: the document written for an answer.
EntradaResposta(pergunta, resposta) ==
    Entrada("resposta", pergunta, resposta.resposta_correta,
            IF resposta.dicas_estudo = "nenhuma" THEN "vazio" ELSE resposta.dicas_estudo,
            FALSE)

\* _buscar_resposta_existente: the position in the index of the first of the
\* (at most 3) retrieved documents whose stored question is similar to the
\* incoming one, 0 when there is none.
buscar_resposta_existente(st, pergunta, busca) ==
    LET docs == buscar_similares(busca.sc, K_CACHE, "tipo=resposta", busca.falha)
        achados == {p \in DOMAIN docs : similares[pergunta, st[docs[p]].pergunta]}
    IN  IF achados = {} THEN 0
        ELSE docs[CHOOSE p \in achados : \A q \in achados : p <= q]

deve_salvar_sempre(response) == TRUE

\* "if response.sucesso": only a successful response is handed to _salvar_resposta.
deve_salvar(response) == response.sucesso

\* responder_pergunta: the response, the index afterwards and what was done.
\* A mapping the response model refuses raises before the save and ends in
\* the except branch; a rejected ingestion is logged and swallowed.
responder_pergunta(st, pergunta, busca, llm, falha_salvar) ==
    LET fonte == buscar_resposta_existente(st, pergunta, busca)
        base == [cache |-> FALSE, fonte |-> 0, llm_chamadas |-> 1,
                 pipeline_sucesso |-> llm.tipo /= "falha", salvar_falhou |-> FALSE,
                 store |-> st, resposta |-> [SemResposta EXCEPT !.pergunta = pergunta]]
        response == [sucesso |-> llm.tipo = "ok", pergunta |-> pergunta,
                     resposta_correta |-> llm.resposta_correta,
                     dicas_estudo |-> llm.dicas_estudo]
    IN  IF fonte /= 0
           THEN [base EXCEPT
                    !.cache = TRUE, !.fonte = fonte, !.llm_chamadas = 0,
                    !.pipeline_sucesso = FALSE,
                    !.resposta = [sucesso |-> TRUE, pergunta |-> pergunta,
                                  resposta_correta |-> st[fonte].resposta_correta,
                                  dicas_estudo |-> st[fonte].dicas_estudo]]
        ELSE IF llm.tipo = "invalido"
           THEN base
        ELSE IF deve_salvar(response)
           THEN [base EXCEPT
                    !.resposta = response,
                    !.salvar_falhou = falha_salvar,
                    !.store = IF falha_salvar THEN st
                              ELSE Append(st, EntradaResposta(pergunta, response))]
        ELSE [base EXCEPT !.resposta = response]

\* The record of a responder_pergunta call with outcome r.
ChamadaResponder(st, pergunta, busca, r) ==
    [SemChamada EXCEPT
        !.op = "responder_pergunta", !.pergunta = pergunta, !.falha = busca.falha,
        !.cache = r.cache, !.fonte = r.fonte, !.llm_chamadas = r.llm_chamadas,
        !.pipeline_sucesso = r.pipeline_sucesso, !.salvar_falhou = r.salvar_falhou,
        !.gravou = (r.store /= st), !.resposta = r.resposta,
        !.retorno = r.resposta.sucesso,
        !.salva_pontuada =
            \E i \in DOMAIN st : /\ st[i].tipo = "resposta"
                                   /\ st[i].pergunta = pergunta
                                   /\ busca.sc[i] >= RAG_SCORE_THRESHOLD]

\* The inputs of the generation step; they are read on a cache miss only.
Geracoes(st, pergunta, busca) ==
    IF buscar_resposta_existente(st, pergunta, busca) /= 0
       THEN {<<CHOOSE l \in RespostasLLM : l.tipo = "falha", FALSE>>}
       ELSE {<<l, f>> \in RespostasLLM \X BOOLEAN : f => l.tipo = "ok"}

ResponderPergunta ==
    /\ NumRespostas(store) < MaxRespostas
    /\ \E pergunta \in PerguntasValidas, busca \in Buscas(store) :
        \E g \in Geracoes(store, pergunta, busca) :
            LET r == responder_pergunta(store, pergunta, busca, g[1], g[2])
            IN  /\ store' = r.store
                /\ Registra(ChamadaResponder(store, pergunta, busca, r))
    /\ UNCHANGED indice_existe
    /\ UNCHANGED foraStore

\* The index of the cache specification: up to K_CACHE article chunks.
InitPerguntas ==
    /\ indice_existe = TRUE
    /\ store \in {[i \in 1..a |-> EntradaArtigo(TRUE)] : a \in 0..K_CACHE}
    /\ ult = SemChamada
    /\ ant = Resumo(SemChamada)

\* ---- claims about responder_pergunta ----
RespondeuPergunta == ult.op = "responder_pergunta"

\* What _salvar_resposta persists of the response of the last call.
Persistido == EntradaResposta(ult.pergunta, ult.resposta)

\* C3: of two identical questions answered one after the other, the first
\* successfully and persisted, the second - the engine answering its search
\* and scoring the persisted entry at or above the threshold - succeeds
\* with the answer fields the first call persisted and generates nothing.
C3_SegundaDoCache ==
    [][(/\ RespondeuPergunta /\ ult.resposta.sucesso /\ ult.gravou
        /\ ult'.op = "responder_pergunta" /\ ult'.pergunta = ult.pergunta
        /\ ~ult'.falha /\ ult'.salva_pontuada)
       => (/\ ult'.cache
           /\ ult'.llm_chamadas = 0
           /\ ult'.resposta.sucesso
           /\ ult'.resposta.resposta_correta = Persistido.resposta_correta
           /\ ult'.resposta.dicas_estudo = Persistido.dicas_estudo)]_vars

\* C5: a cached answer is always drawn from an entry of type "resposta".
C5_CacheSoDeRespostas ==
    (RespondeuPergunta /\ ult.cache) => store[ult.fonte].tipo = "resposta"

\* C6 as stated: an answer entry is written if and only if no cached match
\* was found and the answering pipeline reported success.
C6_GravaSse ==
    RespondeuPergunta => (ult.gravou <=> (~ult.cache /\ ult.pipeline_sucesso))

\* C6, amended: an answer entry is written only if no cached match was found
\* and the pipeline reported success, and then it is written unless the
\* response model refused the pipeline's mapping or the store rejected the
\* ingestion; what is written is the successful response just returned.
C6_GravaSoSucesso ==
    RespondeuPergunta =>
        /\ ult.gravou => (~ult.cache /\ ult.pipeline_sucesso /\ ult.resposta.sucesso)
        /\ (~ult.cache /\ ult.pipeline_sucesso /\ ult.resposta.sucesso /\ ~ult.salvar_falhou)
              => ult.gravou
        /\ ult.gravou => store[Len(store)] = Persistido

C6_Witness ==
    /\ RespondeuPergunta /\ ult.gravou
    /\ ant.op = "responder_pergunta" /\ ~ant.retorno
    /\ store[Len(store)].tipo = "resposta"
    /\ NumRespostas(store) = 1

(***************************************************************************)
(* api/responder.py: POST /validar                                         *)
(***************************************************************************)
\* ValidarRespostaRequest.resposta_usuario: any text, the empty one included.
RespostasUsuario == {<<"c", Espaco>>, <<"D">>, <<>>}

normaliza_sem_caixa(s) == strip(s)

\* ".upper().strip()", applied to the correct answer and to the user's.
normaliza_resposta(s) == strip(upper(s))

Parabens == "parabens"   \* ["Parabéns! Continue estudando!"]

\* The body the endpoint returns for the answer r.resposta.
corpo_validacao(resposta, resposta_usuario) ==
    LET acertou == normaliza_resposta(resposta.resposta_correta)
                       = normaliza_resposta(resposta_usuario)
    IN  [acertou |-> acertou,
         dicas |-> IF ~acertou THEN resposta.dicas_estudo ELSE Parabens]

\* validar_resposta: the request is rebuilt as a ResponderPerguntaRequest
\* inside the try block, so a question shorter than 10 characters ends in
\* HTTP 500 before the service is called.
ValidarResposta ==
    /\ NumRespostas(store) < MaxRespostas
    /\ \E pergunta \in Perguntas, resposta_usuario \in RespostasUsuario :
        IF ~pergunta_valida(pergunta)
           THEN /\ store' = store
                /\ Registra([SemChamada EXCEPT
                        !.op = "validar_resposta", !.pergunta = pergunta,
                        !.resposta_usuario = resposta_usuario, !.http = 500])
           ELSE \E busca \in Buscas(store) :
                \E g \in Geracoes(store, pergunta, busca) :
                    LET r == responder_pergunta(store, pergunta, busca, g[1], g[2])
                        corpo == corpo_validacao(r.resposta, resposta_usuario)
                    IN  /\ store' = r.store
                        /\ Registra([ChamadaResponder(store, pergunta, busca, r) EXCEPT
                                !.op = "validar_resposta",
                                !.resposta_usuario = resposta_usuario,
                                !.http = 200,
                                !.acertou = corpo.acertou,
                                !.dicas = corpo.dicas])
    /\ UNCHANGED indice_existe
    /\ UNCHANGED foraStore

\* The index the endpoint starts from: empty, or holding one article chunk.
InitValidar ==
    /\ indice_existe = TRUE
    /\ store \in {<<>>, <<EntradaArtigo(TRUE)>>}
    /\ ult = SemChamada
    /\ ant = Resumo(SemChamada)

\* ---- claims about the validation endpoint ----
\* s without its leading and trailing blanks.
Nucleo(s) ==
    LET naoBrancos == {i \in DOMAIN s : s[i] /= Espaco}
    IN  IF naoBrancos = {} THEN <<>>
        ELSE LET primeiro == CHOOSE i \in naoBrancos : \A k \in naoBrancos : i <= k
                 ultimo == CHOOSE i \in naoBrancos : \A k \in naoBrancos : i >= k
             IN  SubSeq(s, primeiro, ultimo)

MesmaLetra(x, y) ==
    x = y \/ \E k \in DOMAIN LetrasMin : {x, y} = {LetrasMin[k], LetrasMai[k]}

\* a and b are the same text up to letter case and surrounding blanks.
IguaisSemCaixa(a, b) ==
    /\ Len(Nucleo(a)) = Len(Nucleo(b))
    /\ \A i \in DOMAIN Nucleo(a) : MesmaLetra(Nucleo(a)[i], Nucleo(b)[i])

Validou == ult.op = "validar_resposta" /\ ult.http = 200

\* C10: the endpoint reports acertou exactly when the user's answer and the
\* correct answer are the same text up to letter case and surrounding
\* blanks; a wrong answer gets the answer's study tips, a right one the fixed
\* congratulation.
C10_AcertouSemCaixa ==
    Validou =>
        /\ ult.acertou <=> IguaisSemCaixa(ult.resposta.resposta_correta, ult.resposta_usuario)
        /\ ~ult.acertou => ult.dicas = ult.resposta.dicas_estudo
        /\ ult.acertou => ult.dicas = Parabens

C10_Witness ==
    /\ Validou /\ ult.acertou
    /\ ult.resposta.resposta_correta = <<"C">>
    /\ ult.resposta_usuario = <<"c", Espaco>>
    /\ ult.dicas = Parabens
    /\ ult.resposta.dicas_estudo = "dicas"

\* C28: the endpoint reports acertou only when responder_pergunta returned
\* success; when answering failed (the correct answer is the empty text) no
\* submission, an empty or blank one included, is reported as correct.
C28_AcertouSoComSucesso ==
    Validou =>
        /\ ult.acertou => ult.resposta.sucesso
        /\ ~ult.resposta.sucesso => ~ult.acertou

\* C12: a validation request whose question is shorter than 10 characters is
\* rejected with a client-error status (4xx), never a server error, and
\* before any retrieval or generation.
C12_PerguntaCurtaErroCliente ==
    (ult.op = "validar_resposta" /\ Len(ult.pergunta) < MIN_LENGTH_PERGUNTA) =>
        /\ ult.http >= 400 /\ ult.http < 500
        /\ ult.llm_chamadas = 0
        /\ ~ult.gravou

(***************************************************************************)
(* PerguntasService.criar_perguntas and RAGChainService.gerar_questoes     *)
(***************************************************************************)
\* TipoQuestaoEnum values a request may carry, and the ones FORMATOS_QUESTAO
\* has an entry for (the other entries are commented out).
TiposQuestao == {"multipla_escolha", "certo_errado", "dissertativa"}
FORMATOS_COM_COMENTADOS == TiposQuestao

FORMATOS_QUESTAO == {"multipla_escolha"}

\* One element of the "questoes" list the LLM returns: the "correta" flags of
\* its alternatives, and whether the QuestaoGerada model refuses it.
QuestoesRaw ==
    {[malformado |-> FALSE, alternativas |-> a] :
        a \in {<<TRUE, FALSE>>, <<TRUE, TRUE>>}}
        \cup {[malformado |-> TRUE, alternativas |-> <<>>]}

\* What the generation chain's invocations may do.  The first, parsed one
\* raises (levanta: the LLM call or the JSON parser), yields something that
\* is no mapping with a "questoes" key (invalido), a mapping whose "questoes"
\* cannot be iterated (nao_lista: null), or a mapping with a list of any
\* length (ok).  After a raise the unparsed invocation of the fallback
\* returns or raises in turn.  The similar questions found beforehand only
\* enter the prompt.
SemInvocacao == [forma |-> "nenhuma", questoes |-> <<>>, fallback_levanta |-> FALSE]

SaidasLLM ==
    {[SemInvocacao EXCEPT !.forma = "levanta", !.fallback_levanta = b] : b \in BOOLEAN}
        \cup {[SemInvocacao EXCEPT !.forma = f] : f \in {"invalido", "nao_lista"}}
        \cup {[SemInvocacao EXCEPT !.forma = "ok", !.questoes = q] :
                 q \in SeqsUpTo(QuestoesRaw, 3)}

resultado_sempre_valido(forma) == TRUE

\* "if not isinstance(resultado, dict) or 'questoes' not in resultado" is
\* false.
resultado_valido(forma) == forma \in {"ok", "nao_lista"}

\* gerar_questoes: the format lookup raises KeyError for a type without an
\* entry, before the chain is built (outer except); a raise of the parsed
\* invocation is followed by the unparsed one and reported as a failure
\* whatever that yields; an invalid result is a failure; otherwise the list
\* is passed on as the LLM gave it.  invocacoes counts the LLM invocations.
gerar_questoes(quantidade, tipo, llm) ==
    LET falhou == [sucesso |-> FALSE, questoes |-> <<>>, iteravel |-> TRUE, invocacoes |-> 0]
    IN  IF tipo \notin FORMATOS_QUESTAO THEN falhou
        ELSE IF llm.forma = "levanta" THEN [falhou EXCEPT !.invocacoes = 2]
        ELSE IF ~resultado_valido(llm.forma) THEN [falhou EXCEPT !.invocacoes = 1]
        ELSE [sucesso |-> TRUE, questoes |-> llm.questoes,
              iteravel |-> llm.forma /= "nao_lista", invocacoes |-> 1]

processar_tudo_ou_nada(questoes_raw) ==
    IF \E i \in DOMAIN questoes_raw : questoes_raw[i].malformado THEN <<>>
    ELSE [i \in DOMAIN questoes_raw |-> [alternativas |-> questoes_raw[i].alternativas]]

\* _processar_questoes: every element the model accepts, in order; a refused
\* element is logged and skipped.
RECURSIVE processar_questoes(_)
processar_questoes(questoes_raw) ==
    IF questoes_raw = <<>> THEN <<>>
    ELSE LET q == Head(questoes_raw)
             resto == processar_questoes(Tail(questoes_raw))
         IN  IF q.malformado THEN resto
             ELSE <<[alternativas |-> q.alternativas]>> \o resto

EntradaQuestao == Entrada("questao", <<>>, <<>>, "vazio", FALSE)

\* _salvar_questoes: one document with metadata tipo "questao" per question,
\* handed to adicionar_documentos in one ingestion; a rejected ingestion is
\* logged and swallowed.
salvar_questoes(st, questoes, falha_salvar) ==
    [documentos |-> [i \in DOMAIN questoes |-> [tipo |-> "questao", questao |-> questoes[i]]],
     store |-> IF falha_salvar THEN st
               ELSE st \o [i \in DOMAIN questoes |-> EntradaQuestao]]

\* criar_perguntas: the failure response when gerar_questoes reports no
\* success or anything raises (iterating a "questoes" that is no list does);
\* otherwise the converted questions, saved and returned.
criar_perguntas(st, quantidade, tipo, llm, falha_salvar) ==
    LET resultado == gerar_questoes(quantidade, tipo, llm)
        questoes == processar_questoes(resultado.questoes)
        salvo == salvar_questoes(st, questoes, falha_salvar)
        falhou == [sucesso |-> FALSE, quantidade_gerada |-> 0, questoes |-> <<>>,
                   store |-> st, gerado |-> resultado, pediu_salvar |-> FALSE,
                   documentos |-> <<>>]
    IN  IF ~resultado.sucesso \/ ~resultado.iteravel
           THEN falhou
           ELSE [falhou EXCEPT !.sucesso = TRUE, !.quantidade_gerada = Len(questoes),
                               !.questoes = questoes, !.store = salvo.store,
                               !.pediu_salvar = TRUE, !.documentos = salvo.documentos]

\* The LLM is invoked only for a type that has a format, and the ingestion
\* only matters when there is something to ingest.
Invocacoes ==
    [tipo \in TiposQuestao |->
        IF tipo \notin FORMATOS_QUESTAO
           THEN {<<SemInvocacao, FALSE>>}
           ELSE {<<l, f>> \in SaidasLLM \X BOOLEAN :
                    f => processar_questoes(l.questoes) /= <<>>}]

CriarPerguntas ==
    /\ Len(store) < MaxDocs
    /\ \E quantidade \in 1..MaxQuantidade, tipo \in TiposQuestao :
        \E g \in Invocacoes[tipo] :
            LET r == criar_perguntas(store, quantidade, tipo, g[1], g[2])
            IN  /\ store' = r.store
                /\ Registra([SemChamada EXCEPT
                        !.op = "criar_perguntas", !.retorno = r.sucesso,
                        !.quantidade = quantidade, !.tipo_questao = tipo,
                        !.questoes = r.questoes,
                        !.quantidade_gerada = r.quantidade_gerada,
                        !.saida_llm = g[1], !.gerado = r.gerado,
                        !.pediu_salvar = r.pediu_salvar,
                        !.salvar_falhou = g[2],
                        !.documentos = r.documentos,
                        !.gravou = (r.store /= store)])
    /\ UNCHANGED indice_existe
    /\ UNCHANGED foraStore

\* ---- claims about question generation ----
NumCorretas(questao) ==
    Cardinality({j \in DOMAIN questao.alternativas : questao.alternativas[j]})

\* C9: a successful generation run for quantity q returns exactly q records
\* (quantidade_gerada = q), each record with alternatives having exactly one
\* of them marked correct.
C9_ExatamenteQ ==
    (ult.op = "criar_perguntas" /\ ult.retorno) =>
        /\ ult.quantidade_gerada = ult.quantidade
        /\ Len(ult.questoes) = ult.quantidade
        /\ \A i \in DOMAIN ult.questoes :
              ult.questoes[i].alternativas /= <<>> => NumCorretas(ult.questoes[i]) = 1

\* C24: whenever the parsed LLM invocation raises, gerar_questoes makes at
\* most one further, unparsed invocation and then returns success false with
\* an empty list, whatever the fallback yields; it returns success true only
\* when the first invocation produced a mapping containing "questoes".
C24_FalhaDeParsingReportada ==
    ult.op = "criar_perguntas" =>
        /\ ult.saida_llm.forma = "levanta" =>
              /\ ult.gerado.invocacoes <= 2
              /\ ~ult.gerado.sucesso
              /\ ult.gerado.questoes = <<>>
        /\ ult.gerado.sucesso =>
              /\ ult.gerado.invocacoes = 1
              /\ ult.saida_llm.forma \in {"ok", "nao_lista"}

C24_Witness ==
    /\ ult.op = "criar_perguntas"
    /\ ult.saida_llm.forma = "levanta"
    /\ ~ult.saida_llm.fallback_levanta
    /\ ult.gerado.invocacoes = 2
    /\ ~ult.gerado.sucesso

\* C25: criar_perguntas for a type without an active format entry
\* (certo_errado, dissertativa) returns success false with an empty list and
\* count 0, invokes no LLM and hands nothing to the vector store.
C25_TipoSemFormato ==
    (ult.op = "criar_perguntas" /\ ult.tipo_questao \in {"certo_errado", "dissertativa"}) =>
        /\ ~ult.retorno
        /\ ult.questoes = <<>>
        /\ ult.quantidade_gerada = 0
        /\ ult.gerado.invocacoes = 0
        /\ ~ult.pediu_salvar
        /\ ~ult.gravou

C25_Witness ==
    /\ ult.op = "criar_perguntas"
    /\ ant.op = "criar_perguntas"
    /\ ult.tipo_questao = "dissertativa"
    /\ store /= <<>>
    /\ ~ult.retorno

\* The raw records the QuestaoGerada model accepts, in their order.
Convertidas(questoes_raw) ==
    LET aceitas == SelectSeq(questoes_raw, LAMBDA q : ~q.malformado)
    IN  [i \in DOMAIN aceitas |-> [alternativas |-> aceitas[i].alternativas]]

\* C26: a successful criar_perguntas returns exactly the raw records that
\* convert, in their original order (a record that fails conversion is
\* skipped); the count is the length of the returned list; exactly those
\* questions are handed to persistence, tagged "questao"; and a persistence
\* failure leaves the result as it is.
C26_ConvertidasEmOrdem ==
    (ult.op = "criar_perguntas" /\ ult.retorno) =>
        /\ ult.questoes = Convertidas(ult.saida_llm.questoes)
        /\ ult.quantidade_gerada = Len(ult.questoes)
        /\ ult.pediu_salvar
        /\ ult.documentos =
              [i \in DOMAIN ult.questoes |-> [tipo |-> "questao", questao |-> ult.questoes[i]]]
        /\ ult.salvar_falhou => ~ult.gravou

C26_Witness ==
    /\ ult.op = "criar_perguntas"
    /\ ult.retorno
    /\ ult.salvar_falhou
    /\ Len(ult.saida_llm.questoes) = 3
    /\ ult.saida_llm.questoes[2].malformado
    /\ ult.quantidade_gerada = 2
    /\ ult.questoes[1] /= ult.questoes[2]

\* ---- claims about VectorStoreService ----

\* Positions of the engine's result whose score reaches the threshold.
Mantidos(r) == {p \in DOMAIN r : r[p][2] >= RAG_SCORE_THRESHOLD}

\* C7: buscar_similares returns exactly the documents of the engine's scored
\* result whose score is at least the threshold, in their original order (a
\* score equal to the threshold is kept); on an engine failure it returns the
\* empty list.
C7_FiltroPorScore ==
    ult.op = "buscar_similares" =>
        IF ult.falha THEN ult.docs = <<>>
        ELSE LET r == ult.resultado_engine
             IN  /\ Len(ult.docs) = Cardinality(Mantidos(r))
                 /\ \A p \in Mantidos(r) :
                        ult.docs[Cardinality({q \in Mantidos(r) : q <= p})] = r[p][1]

C7_Witness ==
    /\ ult.op = "buscar_similares"
    /\ ~ult.falha
    /\ \E p, q \in DOMAIN ult.resultado_engine :
           /\ ult.resultado_engine[p][2] = RAG_SCORE_THRESHOLD
           /\ ult.resultado_engine[q][2] < RAG_SCORE_THRESHOLD
    /\ Len(ult.docs) = Len(ult.resultado_engine) - 1

DuasCriacoes == ant.op = "criar_indice" /\ ult.op = "criar_indice"

\* C8 as stated: after two calls of criar_indice in a row exactly one index
\* exists, and the second call found it, issued no create request and
\* returned true.
C8_DuasCriacoes ==
    DuasCriacoes => (indice_existe /\ ~ult.pediu_criar /\ ult.retorno)

\* C8 amended: when the first of the two calls returned true, the index exists
\* after the second, which issues no create request and returns true unless
\* the engine fails on its existence check (it then returns false).
C8_DuasCriacoesAposSucesso ==
    (DuasCriacoes /\ ant.retorno) =>
        /\ indice_existe
        /\ ~ult.pediu_criar
        /\ ult.retorno <=> ~ult.falha

C8_Witness ==
    /\ DuasCriacoes
    /\ ant.retorno
    /\ ult.retorno
    /\ ~ult.pediu_criar
    /\ indice_existe

(***************************************************************************)
(* DocumentExtractionService.criar_chunks                                  *)
(***************************************************************************)
\* The body of an article is ' '.join(words) (processar_pdf), kept here as
\* the sequence of its words.  Sizes are scaled by 50: a chunk_size of 1000
\* characters with 100 words per part becomes 20 characters with 2 words.
CHUNK_SIZE == 20
PALAVRAS_POR_PARTE == 2   \* the 100 of "i//100" in the part label

\* A body word that can be told from the others.
Palavra(k) == [t |-> "pal", num |-> k, ord |-> FALSE, aspas |-> FALSE]

\* Characters of one word: "(VETADO)" has 8, a quoted "Art.1" 5, a plain word 3.
tamanho(tok) == IF tok.t = "vetado" THEN 8 ELSE IF tok.t = "art" THEN 5 ELSE 3

RECURSIVE soma_tamanhos(_)
soma_tamanhos(palavras) ==
    IF palavras = <<>> THEN 0 ELSE tamanho(Head(palavras)) + soma_tamanhos(Tail(palavras))

\* len(conteudo): the words and the single blanks between them.
len_conteudo(conteudo) ==
    IF conteudo = <<>> THEN 0 ELSE soma_tamanhos(conteudo) + Len(conteudo) - 1

\* conteudo.split()
palavras_de(conteudo) == conteudo

fatia_curta(palavras, i, passo) ==
    SubSeq(palavras, i + 1, IF i + passo - 1 < Len(palavras) THEN i + passo - 1 ELSE Len(palavras))

\* palavras[i:i + chunk_size // 10]
fatia(palavras, i, passo) ==
    SubSeq(palavras, i + 1, IF i + passo < Len(palavras) THEN i + passo ELSE Len(palavras))

\* for i in range(0, len(palavras), chunk_size // 10): one "artigo_chunk" each.
RECURSIVE partes(_, _, _, _)
partes(artigo, palavras, i, passo) ==
    IF i >= Len(palavras) THEN <<>>
    ELSE <<[tipo |-> "artigo_chunk", numero |-> artigo.numero,
            em_vigor |-> artigo.em_vigor,
            parte |-> (i \div PALAVRAS_POR_PARTE) + 1,
            palavras |-> fatia(palavras, i, passo)]>>
         \o partes(artigo, palavras, i + passo, passo)

\* The chunks of one article: the whole article when it fits, parts otherwise
\* (parte 0: the content carries no part label).
chunks_do_artigo(artigo, chunk_size) ==
    IF len_conteudo(artigo.conteudo) <= chunk_size
       THEN <<[tipo |-> "artigo_completo", numero |-> artigo.numero,
               em_vigor |-> artigo.em_vigor, parte |-> 0,
               palavras |-> artigo.conteudo]>>
       ELSE partes(artigo, palavras_de(artigo.conteudo), 0, chunk_size \div 10)

RECURSIVE criar_chunks(_, _)
criar_chunks(arts, chunk_size) ==
    IF arts = <<>> THEN <<>>
    ELSE chunks_do_artigo(Head(arts), chunk_size) \o criar_chunks(Tail(arts), chunk_size)

\* Bodies handed to criar_chunks: words of three kinds, the last one possibly
\* the vetoed marker of an article that is not in force.
Corpos == SeqsUpTo({Palavra(k) : k \in 1..3}, MaxCorpo)

InitChunks ==
    /\ texto = <<>>
    /\ pdf_abre = TRUE
    /\ artigos \in {<<[numero |-> TokArt(1, FALSE, FALSE), conteudo |-> c, em_vigor |-> TRUE]>> :
                        c \in Corpos}
                   \cup {<<[numero |-> TokArt(1, FALSE, FALSE),
                            conteudo |-> Append(c, TokVetado), em_vigor |-> FALSE]>> :
                            c \in Corpos}
    /\ fase = "extraido"

CriarChunks ==
    /\ fase = "extraido"
    /\ fase' = "chunks"
    /\ ult' = [SemChamada EXCEPT !.op = "criar_chunks",
                                 !.documentos = criar_chunks(artigos, CHUNK_SIZE)]
    /\ ant' = Resumo(ult)
    /\ UNCHANGED <<texto, pdf_abre, artigos, indice_existe, store, tarefas>>
    /\ UNCHANGED <<varsSimilar, varsConfig, varsProcesso>>

\* ---- claims about criar_chunks ----
RECURSIVE Concatena(_)
Concatena(docs) ==
    IF docs = <<>> THEN <<>> ELSE Head(docs).palavras \o Concatena(Tail(docs))

\* Characters of a body, counted word by word.
RECURSIVE Caracteres(_)
Caracteres(c) ==
    IF c = <<>> THEN 0
    ELSE (IF Len(c) > 1 THEN 1 ELSE 0)
         + (IF Head(c) = TokVetado THEN 8 ELSE 3) + Caracteres(Tail(c))

Fatiado == fase = "chunks" /\ ult.op = "criar_chunks"

\* C17: an article whose body has at most chunk_size characters yields exactly
\* one "artigo_completo" chunk holding its number and its body; a longer body
\* yields "artigo_chunk" parts whose words, concatenated in emission order,
\* are the body's word sequence.
C17_ChunksPreservamTexto ==
    Fatiado =>
        LET corpo == artigos[1].conteudo
            docs == ult.documentos
        IN  /\ Caracteres(corpo) <= CHUNK_SIZE =>
                /\ Len(docs) = 1
                /\ docs[1].tipo = "artigo_completo"
                /\ docs[1].numero = artigos[1].numero
                /\ docs[1].palavras = corpo
                /\ docs[1].parte = 0
            /\ Caracteres(corpo) > CHUNK_SIZE =>
                /\ Len(docs) >= 1
                /\ \A i \in DOMAIN docs : docs[i].tipo = "artigo_chunk" /\ docs[i].parte >= 1
                /\ Concatena(docs) = corpo

C17_Witness ==
    /\ Fatiado
    /\ Caracteres(artigos[1].conteudo) > CHUNK_SIZE
    /\ Len(ult.documentos) = 4
    /\ Len(ult.documentos[4].palavras) = 1
    /\ \E i, j \in DOMAIN artigos[1].conteudo : artigos[1].conteudo[i] /= artigos[1].conteudo[j]

(***************************************************************************)
(* DocumentExtractionService: processar_pasta, salvar_json,                *)
(* indexar_documentos, processar_e_indexar                                 *)
(***************************************************************************)
\* s.endswith(sufixo)
endswith(s, sufixo) ==
    /\ Len(s) >= Len(sufixo)
    /\ SubSeq(s, Len(s) - Len(sufixo) + 1, Len(s)) = sufixo

SufixoPdf == <<".", "p", "d", "f">>

eh_pdf_sem_lower(filename) == endswith(filename, SufixoPdf)

\* filename.lower().endswith('.pdf')
eh_pdf(filename) == endswith(lower(filename), SufixoPdf)

\* Files a client may upload or a folder may hold: a name, the page text and
\* whether pymupdf opens it.
Arq ==
    [a |-> [filename |-> <<"a", ".", "p", "d", "f">>,
            texto |-> <<TokArt(1, FALSE, FALSE), TokPalavra, TokArt(1, TRUE, FALSE)>>,
            abre |-> TRUE],
     b |-> [filename |-> <<"b", ".", "P", "D", "F">>,
            texto |-> <<TokArt(2, FALSE, FALSE)>>, abre |-> FALSE],
     c |-> [filename |-> <<"c", ".", "t", "x", "t">>,
            texto |-> <<TokArt(1, FALSE, FALSE)>>, abre |-> TRUE],
     d |-> [filename |-> <<"p", "d", "f", ".", "d">>,
            texto |-> <<TokPalavra>>, abre |-> TRUE]]
Arquivos == {Arq[n] : n \in DOMAIN Arq}

\* open(os.path.join(pasta, filename), "wb"): a file of the same name is replaced.
gravar(pasta, arquivo) ==
    IF \E i \in DOMAIN pasta : pasta[i].filename = arquivo.filename
       THEN [i \in DOMAIN pasta |->
                IF pasta[i].filename = arquivo.filename THEN arquivo ELSE pasta[i]]
       ELSE Append(pasta, arquivo)

\* os.listdir(pasta): the files of the folder in any order.
Listagens(pasta) ==
    {[i \in DOMAIN pasta |-> pasta[f[i]]] :
        f \in {g \in [DOMAIN pasta -> DOMAIN pasta] :
                  \A i, j \in DOMAIN pasta : g[i] = g[j] => i = j}}

\* processar_pasta: nothing for a missing folder; otherwise the articles of
\* every listed file whose name ends in ".pdf", in listing order.
RECURSIVE processar_pasta(_, _)
processar_pasta(pasta_existe, listagem) ==
    IF ~pasta_existe \/ listagem = <<>> THEN <<>>
    ELSE LET arquivo == Head(listagem)
             resto == processar_pasta(pasta_existe, Tail(listagem))
         IN  IF eh_pdf(arquivo.filename)
                THEN processar_pdf(arquivo.texto, arquivo.abre) \o resto
                ELSE resto

artigos_sem_filtro(arts, incluir_vetados) == arts

\* "if not incluir_vetados: artigos_para_indexar = [a for a in artigos if a['em_vigor']]"
artigos_para_indexar(arts, incluir_vetados) ==
    IF ~incluir_vetados THEN SelectSeq(arts, LAMBDA a : a.em_vigor) ELSE arts

\* What the engine and the file system do during one pipeline run.
\* The runs in which at most one thing goes wrong.
AmbientesSimples ==
    {a \in [conexao : BOOLEAN, falha_criar : BOOLEAN, falha_adicionar : BOOLEAN,
            falha_listar : BOOLEAN, falha_json : BOOLEAN] :
        Cardinality({x \in {"conexao", "criar", "adicionar", "listar", "json"} :
            \/ x = "conexao" /\ ~a.conexao
            \/ x = "criar" /\ a.falha_criar
            \/ x = "adicionar" /\ a.falha_adicionar
            \/ x = "listar" /\ a.falha_listar
            \/ x = "json" /\ a.falha_json}) <= 1}

ids_ignorados(ids) == TRUE

\* "if ids:" in indexar_documentos
ids_presentes(ids) == ids > 0

\* The index entry of a chunk.
EntradaChunk(doc) == Entrada(doc.tipo, <<>>, <<>>, "vazio", doc.em_vigor)

\* indexar_documentos: ping, criar_indice (its result is dropped),
\* adicionar_documentos; true when ids came back.  passos keeps what each
\* step answered: the ping, criar_indice, whether adicionar_documentos was
\* called, and how many ids it returned.
indexar_documentos(existe, st, documentos, amb) ==
    IF ~amb.conexao
       THEN [ok |-> FALSE, indice_existe |-> existe, store |-> st,
             passos |-> SemChamada.passos]
       ELSE LET criado == existe \/ ~amb.falha_criar
                ids == IF amb.falha_adicionar THEN 0 ELSE Len(documentos)
            IN  [ok |-> ids_presentes(ids),
                 passos |-> [conexao |-> TRUE, criou |-> criado,
                             pediu_adicionar |-> TRUE, ids |-> ids],
                 indice_existe |-> IF ids > 0 THEN TRUE ELSE criado,
                 store |-> IF amb.falha_adicionar THEN st
                           ELSE st \o [i \in DOMAIN documentos |-> EntradaChunk(documentos[i])]]

PipelineFalhou == [SemPipeline EXCEPT !.iniciou = TRUE, !.chaves = {"sucesso"}]

\* The listings of the folders an upload can leave behind, and
\* processar_pasta tabulated over them.
artigos_da_pasta ==
    LET listadas == {l \in SeqsUpTo(Arquivos, MaxArquivos) :
                        \A i, j \in DOMAIN l : l[i].filename = l[j].filename => i = j}
    IN  [l \in listadas |-> processar_pasta(TRUE, l)]

\* processar_e_indexar: the returned mapping (chaves are its keys), what was
\* written and handed to indexing, and the engine afterwards.  An exception
\* anywhere (here: listing the folder) ends in the except branch.
processar_e_indexar(pasta_existe, listagem, salvar_json, incluir_vetados, amb, existe, st) ==
    LET arts == IF pasta_existe /\ listagem \in DOMAIN artigos_da_pasta
                   THEN artigos_da_pasta[listagem]
                   ELSE processar_pasta(pasta_existe, listagem)
        em_vigor == Len(SelectSeq(arts, LAMBDA a : a.em_vigor))
        documentos == criar_chunks(artigos_para_indexar(arts, incluir_vetados), CHUNK_SIZE)
        idx == indexar_documentos(existe, st, documentos, amb)
        feito == [PipelineFalhou EXCEPT
                     !.artigos = arts,
                     !.json_escrito = salvar_json /\ ~amb.falha_json,
                     !.json = IF salvar_json /\ ~amb.falha_json THEN arts ELSE <<>>,
                     !.documentos = documentos,
                     !.indexou = idx.store /= st]
    IN  IF amb.falha_listar
           THEN [res |-> PipelineFalhou, indice_existe |-> existe, store |-> st]
        ELSE IF arts = <<>>
           THEN [res |-> PipelineFalhou, indice_existe |-> existe, store |-> st]
        ELSE IF idx.ok
           THEN [res |-> [feito EXCEPT
                            !.sucesso = TRUE,
                            !.chaves = {"sucesso", "total_artigos", "artigos_em_vigor",
                                        "artigos_vetados"},
                            !.total_artigos = Len(arts),
                            !.artigos_em_vigor = em_vigor,
                            !.artigos_vetados = Len(arts) - em_vigor],
                 indice_existe |-> idx.indice_existe, store |-> idx.store]
        ELSE [res |-> feito, indice_existe |-> idx.indice_existe, store |-> idx.store]

(***************************************************************************)
(* api/documents.py: POST /documents/process, /documents/process-background*)
(* and the CLI extract_documents.py                                        *)
(***************************************************************************)
\* files: List[UploadFile] = File(...): at least one file.
Uploads == SeqsUpTo(Arquivos, MaxArquivos) \ {<<>>}

\* The upload loop of both endpoints, from file i on: a name that is no PDF
\* name raises the 400 naming it, a write that fails raises an OSError, and
\* otherwise the file lands in the temporary folder.  falha_em is the
\* position of the file whose write fails (0: none).
RECURSIVE salvar_uploads(_, _, _, _)
salvar_uploads(files, i, pasta, falha_em) ==
    IF i > Len(files) THEN [estado |-> "ok", pasta |-> pasta, detalhe |-> <<>>]
    ELSE IF ~eh_pdf(files[i].filename)
       THEN [estado |-> "nao_pdf", pasta |-> pasta, detalhe |-> files[i].filename]
    ELSE IF i = falha_em
       THEN [estado |-> "erro", pasta |-> pasta, detalhe |-> <<>>]
    ELSE salvar_uploads(files, i + 1, gravar(pasta, files[i]), falha_em)

temp_dir_sem_limpeza(op, estado) == TRUE

\* Whether the temporary folder is still there when the request finishes.
\* processar_documentos holds it in "with tempfile.TemporaryDirectory()",
\* which removes it however the block is left; the background endpoint makes
\* it with mkdtemp, removes it (shutil.rmtree) in its except branch, and
\* leaves it to the queued task when the uploads were saved.
temp_dir_ao_sair(op, estado) ==
    IF op = "processar_documentos" THEN FALSE ELSE estado = "ok"

ChamadaApi(op, files, u) ==
    [SemChamada EXCEPT
        !.op = op, !.arquivos = files, !.detalhe = u.detalhe,
        !.falha = (u.estado = "erro"),
        !.temp_dir_existe = temp_dir_ao_sair(op, u.estado),
        !.http = IF u.estado = "nao_pdf" THEN 400 ELSE 500]

\* The model serves one request at a time: a queued background task runs
\* before the next request is taken.
\* processar_documentos: 400 for a name that is no PDF name, 200 with the
\* totals when the pipeline succeeds, 500 otherwise.
ProcessarDocumentos ==
    /\ tarefas = <<>>
    /\ Len(store) < MaxDocs
    /\ \E files \in Uploads : \E falha_em \in 0..Len(files) :
        \E u \in {salvar_uploads(files, 1, <<>>, falha_em)} :
            IF u.estado /= "ok"
               THEN /\ RegistraUltima(ChamadaApi("processar_documentos", files, u))
                    /\ UNCHANGED <<indice_existe, store>>
               ELSE \E salvar_json, incluir_vetados \in BOOLEAN,
                       listagem \in Listagens(u.pasta), amb \in AmbientesSimples :
                    \E r \in {processar_e_indexar(TRUE, listagem, salvar_json,
                                                 incluir_vetados, amb, indice_existe, store)} :
                        /\ RegistraUltima([ChamadaApi("processar_documentos", files, u) EXCEPT
                                !.http = IF r.res.sucesso THEN 200 ELSE 500,
                                !.retorno = r.res.sucesso,
                                !.salvar_json = salvar_json,
                                !.incluir_vetados = incluir_vetados,
                                !.pipeline = r.res])
                        /\ indice_existe' = r.indice_existe
                        /\ store' = r.store
    /\ UNCHANGED tarefas
    /\ UNCHANGED foraDocumentos

\* processar_documentos_background: the same upload loop, then the pipeline
\* is queued as a background task and the request is answered at once.
ProcessarDocumentosBackground ==
    /\ tarefas = <<>>
    /\ \E files \in Uploads : \E falha_em \in 0..Len(files) :
        \E u \in {salvar_uploads(files, 1, <<>>, falha_em)} :
            IF u.estado /= "ok"
               THEN /\ RegistraUltima(ChamadaApi("processar_documentos_background", files, u))
                    /\ UNCHANGED tarefas
               ELSE \E salvar_json, incluir_vetados \in BOOLEAN :
                    /\ RegistraUltima([ChamadaApi("processar_documentos_background", files, u)
                            EXCEPT !.http = 200, !.retorno = TRUE, !.enfileirou = TRUE,
                                   !.salvar_json = salvar_json,
                                   !.incluir_vetados = incluir_vetados])
                    /\ tarefas' = Append(tarefas,
                           [pasta |-> u.pasta, salvar_json |-> salvar_json,
                            incluir_vetados |-> incluir_vetados])
    /\ UNCHANGED <<indice_existe, store>>
    /\ UNCHANGED foraDocumentos

\* A queued background task runs processar_e_indexar on its folder.
ExecutarTarefa ==
    /\ tarefas /= <<>>
    /\ Len(store) < MaxDocs
    /\ \E listagem \in Listagens(Head(tarefas).pasta), amb \in AmbientesSimples :
        \E t \in {Head(tarefas)} :
        \E r \in {processar_e_indexar(TRUE, listagem, t.salvar_json, t.incluir_vetados,
                                      amb, indice_existe, store)} :
            /\ RegistraUltima([SemChamada EXCEPT
                    !.op = "tarefa", !.retorno = r.res.sucesso,
                    !.salvar_json = t.salvar_json,
                    !.incluir_vetados = t.incluir_vetados,
                    !.pipeline = r.res])
            /\ indice_existe' = r.indice_existe
            /\ store' = r.store
    /\ tarefas' = Tail(tarefas)
    /\ UNCHANGED foraDocumentos

\* The index the API starts from.
InitDocumentos ==
    /\ indice_existe = FALSE
    /\ store = <<>>
    /\ ult = SemChamada
    /\ ant = Resumo(SemChamada)
    /\ tarefas = <<>>

(***************************************************************************)
(* extract_documents.py: the CLI                                           *)
(***************************************************************************)
\* The parameters processar_e_indexar declares, and the keywords main passes.
PARAMETROS_PROCESSAR_E_INDEXAR == {"caminho_pasta", "salvar_json", "incluir_vetados"}
ARGUMENTOS_MAIN == {"caminho_pasta", "salvar_json", "apenas_em_vigor"}

\* A call with a keyword the function does not declare raises TypeError
\* before the function body runs.
chamada_aceita(argumentos, parametros) == argumentos \subseteq parametros

\* "if sucesso:" on the returned mapping: a mapping is true unless empty.
verdadeiro(chaves) == chaves /= {}

\* main: exit 1 for a missing folder; otherwise the pipeline call, whose
\* TypeError is not caught (the interpreter prints it and exits 1), and
\* exit 0 or 1 on the truth value of what the pipeline returned.
main(pasta_existe, listagem, no_json, incluir_vetados, amb, existe, st) ==
    LET nada == [res |-> SemPipeline, indice_existe |-> existe, store |-> st]
        r == processar_e_indexar(pasta_existe, listagem, ~no_json, incluir_vetados,
                                 amb, existe, st)
    IN  IF ~pasta_existe THEN [saida |-> 1, r |-> nada]
        ELSE IF ~chamada_aceita(ARGUMENTOS_MAIN, PARAMETROS_PROCESSAR_E_INDEXAR)
           THEN [saida |-> 1, r |-> nada]
        ELSE [saida |-> IF verdadeiro(r.res.chaves) THEN 0 ELSE 1, r |-> r]

Main ==
    /\ tarefas = <<>>
    /\ Len(store) < MaxDocs
    /\ \E pasta_existe, no_json, incluir_vetados \in BOOLEAN,
          listagem \in {<<Arq.a>>, <<Arq.b>>}, amb \in {[conexao |-> TRUE, falha_criar |-> FALSE, falha_adicionar |-> FALSE,
                    falha_listar |-> FALSE, falha_json |-> FALSE]} :
        \E m \in {main(pasta_existe, listagem, no_json, incluir_vetados, amb,
                       indice_existe, store)} :
            /\ RegistraUltima([SemChamada EXCEPT
                    !.op = "main", !.pasta_existe = pasta_existe,
                    !.saida = m.saida, !.retorno = m.saida = 0,
                    !.salvar_json = ~no_json, !.incluir_vetados = incluir_vetados,
                    !.pipeline = m.r.res])
            /\ indice_existe' = m.r.indice_existe
            /\ store' = m.r.store
    /\ UNCHANGED tarefas
    /\ UNCHANGED foraDocumentos

\* ---- claims about the temporary folder ----
\* C27: when a request to the synchronous endpoint finishes, its temporary
\* folder no longer exists, whether the request succeeded, was rejected or
\* failed; when saving the uploads fails in the background endpoint, the
\* temporary folder is removed and no task is scheduled.
C27_PastaTemporariaRemovida ==
    /\ ult.op = "processar_documentos" => ~ult.temp_dir_existe
    /\ (ult.op = "processar_documentos_background" /\ ult.http /= 200) =>
           (~ult.temp_dir_existe /\ ~ult.enfileirou /\ tarefas = <<>>)

C27_Witness ==
    /\ ult.op = "processar_documentos_background"
    /\ ult.falha
    /\ ult.http = 500
    /\ ~ult.temp_dir_existe
    /\ tarefas = <<>>

\* ---- claims about the CLI ----
\* C14: given an existing folder, the CLI runs the pipeline and exits 0
\* exactly when the pipeline reported success, 1 when it reported failure.
C14_SaidaSegueSucesso ==
    (ult.op = "main" /\ ult.pasta_existe) =>
        /\ ult.pipeline.iniciou
        /\ ult.saida = 0 <=> ult.pipeline.sucesso
        /\ ult.saida = 1 <=> ~ult.pipeline.sucesso

\* ---- claims about the upload endpoints ----
ApiUpload == ult.op \in {"processar_documentos", "processar_documentos_background"}

\* The name ends in ".pdf", whatever the case of its letters.
TerminaEmPdf(nome) ==
    /\ Len(nome) >= 4
    /\ \A i \in 1..4 : MesmaLetra(nome[Len(nome) - 4 + i], SufixoPdf[i])

\* Positions of the uploaded files whose name is no PDF name.
NaoPdfs == {i \in DOMAIN ult.arquivos : ~TerminaEmPdf(ult.arquivos[i].filename)}
PrimeiroNaoPdf == CHOOSE i \in NaoPdfs : \A j \in NaoPdfs : i <= j

NadaProcessado ==
    /\ ~ult.pipeline.iniciou
    /\ ~ult.pipeline.indexou
    /\ ~ult.enfileirou

\* C11 as stated: for every uploaded file whose name is no PDF name, the
\* endpoint answers 400 naming that file, starts no pipeline and indexes
\* nothing.
C11_RejeitaCadaNaoPdf ==
    ApiUpload =>
        \A i \in NaoPdfs :
            /\ ult.http = 400
            /\ ult.detalhe = ult.arquivos[i].filename
            /\ NadaProcessado

\* C11, amended: when some uploaded file's name is no PDF name, no pipeline
\* is started or queued and nothing is indexed; the answer is 400 naming the
\* first such file, unless writing one of the files before it failed, which
\* ends in 500.
C11_RejeitaPrimeiroNaoPdf ==
    (ApiUpload /\ NaoPdfs /= {}) =>
        /\ NadaProcessado
        /\ IF ult.falha
              THEN ult.http = 500 /\ PrimeiroNaoPdf > 1
              ELSE ult.http = 400 /\ ult.detalhe = ult.arquivos[PrimeiroNaoPdf].filename

C11_Witness ==
    /\ ult.op = "processar_documentos_background"
    /\ ult.arquivos = <<Arq.b, Arq.c>>
    /\ ult.http = 400
    /\ ult.detalhe = Arq.c.filename
    /\ store /= <<>>

\* ---- claims about processar_e_indexar ----
\* The last call ran the pipeline (from the endpoint or as a background task).
RodouPipeline == ult.op \in {"processar_documentos", "tarefa"} /\ ult.pipeline.iniciou

Vetados(arts) == {i \in DOMAIN arts : ~arts[i].em_vigor}

\* C15: with incluir_vetados false every chunk handed to indexing comes from
\* an article in force, one chunk for each of them in order, while the JSON
\* file, when written, holds every extracted article, the vetoed ones included.
C15_SoEmVigorIndexado ==
    RodouPipeline =>
        LET arts == ult.pipeline.artigos
            docs == ult.pipeline.documentos
            emVigor == {i \in DOMAIN arts : arts[i].em_vigor}
        IN  /\ (~ult.incluir_vetados /\ arts /= <<>>) =>
                /\ \A d \in DOMAIN docs :
                      /\ docs[d].em_vigor
                      /\ \E i \in emVigor : /\ arts[i].numero = docs[d].numero
                                            /\ arts[i].conteudo = docs[d].palavras
                /\ Len(docs) = Cardinality(emVigor)
            /\ ult.pipeline.json_escrito =>
                /\ ult.salvar_json
                /\ ult.pipeline.json = arts
                /\ ult.pipeline.sucesso =>
                      /\ Len(ult.pipeline.json) = ult.pipeline.total_artigos
                      /\ Cardinality(Vetados(ult.pipeline.json)) = ult.pipeline.artigos_vetados

C15_Witness ==
    /\ RodouPipeline /\ ult.pipeline.sucesso
    /\ ~ult.incluir_vetados /\ ult.salvar_json /\ ult.pipeline.json_escrito
    /\ Vetados(ult.pipeline.json) /= {}
    /\ Len(ult.pipeline.documentos) = 1
    /\ Len(ult.pipeline.json) = 2

\* C16: the pipeline answers success, with total = in force + vetoed counted
\* over every extracted article, exactly when at least one article was
\* extracted and the chunks were added to the index; otherwise it answers
\* the mapping that holds success = false alone.
C16_SucessoSseIndexou ==
    RodouPipeline =>
        LET arts == ult.pipeline.artigos
            p == ult.pipeline
        IN  /\ p.sucesso <=> (Len(arts) >= 1 /\ p.indexou)
            /\ p.sucesso =>
                /\ p.chaves = {"sucesso", "total_artigos", "artigos_em_vigor", "artigos_vetados"}
                /\ p.total_artigos = Len(arts)
                /\ p.artigos_vetados = Cardinality(Vetados(arts))
                /\ p.total_artigos = p.artigos_em_vigor + p.artigos_vetados
            /\ ~p.sucesso => p.chaves = {"sucesso"}
            /\ ult.op = "processar_documentos" => (ult.http = 200 <=> p.sucesso)

C16_Witness ==
    /\ ult.op = "tarefa" /\ ult.pipeline.sucesso
    /\ ~ult.incluir_vetados
    /\ ult.pipeline.total_artigos = 2
    /\ ult.pipeline.artigos_em_vigor = 1
    /\ ult.pipeline.artigos_vetados = 1
    /\ Len(store) >= 2

(***************************************************************************)
(* Settings (core/config.py)                                               *)
(*                                                                         *)
(* Three of the settings are followed, one of each type: RAG_TOP_K (int),  *)
(* OPENSEARCH_USE_SSL (bool) and OPENSEARCH_HOST (str).  A value is a      *)
(* record that carries its type; an environment variable always holds a    *)
(* string, a value of the config file has the type YAML gave it.           *)
(***************************************************************************)
Valor(t, i, b, s) == [t |-> t, i |-> i, b |-> b, s |-> s]
Nulo == Valor("none", 0, FALSE, "")

\* The fields of Settings that are followed, with their declared types and
\* defaults.
Campo ==
    [RAG_TOP_K |-> [tipo |-> "int", padrao |-> Valor("int", RAG_TOP_K, FALSE, "")],
     OPENSEARCH_USE_SSL |-> [tipo |-> "bool", padrao |-> Valor("bool", 0, FALSE, "")],
     OPENSEARCH_HOST |-> [tipo |-> "str", padrao |-> Valor("str", 0, FALSE, "localhost")]]
CAMPOS == DOMAIN Campo

\* mapping in _map_yaml_to_env: the dotted path of each followed field.
mapping ==
    [c \in CAMPOS |->
        CASE c = "RAG_TOP_K" -> <<"rag", "top_k">>
          [] c = "OPENSEARCH_USE_SSL" -> <<"opensearch", "use_ssl">>
          [] c = "OPENSEARCH_HOST" -> <<"opensearch", "host">>]

\* str(value) of a value read from the config file.
Digitos == <<"0", "1", "2", "3", "4", "5", "6", "7", "8", "9">>
str(value) ==
    CASE value.t = "int" -> Digitos[value.i + 1]
      [] value.t = "bool" -> IF value.b THEN "True" ELSE "False"
      [] OTHER -> value.s

\* The value a field of the declared type takes from the string found in the
\* environment.
interpreta(tipo, raw) ==
    CASE tipo = "int" ->
            IF \E i \in DOMAIN Digitos : Digitos[i] = raw
            THEN Valor("int", (CHOOSE i \in DOMAIN Digitos : Digitos[i] = raw) - 1, FALSE, "")
            ELSE Valor("erro", 0, FALSE, "")
      [] tipo = "bool" ->
            IF raw \in {"True", "true", "1"} THEN Valor("bool", 0, TRUE, "")
            ELSE IF raw \in {"False", "false", "0"} THEN Valor("bool", 0, FALSE, "")
            ELSE Valor("erro", 0, FALSE, "")
      [] OTHER -> Valor("str", 0, FALSE, raw)

\* _get_nested_value(data, path): follows the keys of the path through the
\* nested mappings, None when a key is missing.
RECURSIVE get_nested_value(_, _)
get_nested_value(data, path) ==
    IF path = <<>> THEN data.folha
    ELSE IF data.t = "dict" /\ Head(path) \in DOMAIN data.filhos
         THEN get_nested_value(data.filhos[Head(path)], Tail(path))
         ELSE Nulo

\* A node of the parsed file is a mapping (dict, with its children) or a
\* value (folha).

\* load_yaml_config(): the parsed config.yaml, {} when the file is missing.
\* A file holds any of the three followed keys, under its section.
ArquivosYaml ==
    LET valores == [top_k : {Nulo, Valor("int", 3, FALSE, ""), Valor("int", 7, FALSE, "")},
                    use_ssl : {Nulo, Valor("bool", 0, TRUE, "")},
                    host : {Nulo, Valor("str", 0, FALSE, "search")}]
        secao(pares) ==
            LET presentes == {p \in DOMAIN pares : pares[p] /= Nulo}
            IN  [t |-> "dict", folha |-> Nulo,
                 filhos |-> [p \in presentes |->
                               [t |-> "folha", folha |-> pares[p], filhos |-> <<>>]]]
        arquivo(v) ==
            LET secoes == [rag |-> secao([top_k |-> v.top_k]),
                           opensearch |-> secao([use_ssl |-> v.use_ssl,
                                                 host |-> v.host])]
                presentes == {x \in DOMAIN secoes : DOMAIN secoes[x].filhos /= {}}
            IN  [t |-> "dict", folha |-> Nulo, filhos |-> [x \in presentes |-> secoes[x]]]
    IN  {arquivo(v) : v \in valores}

\* _map_yaml_to_env(config): every mapped path that has a value in the file
\* is written to the environment.
RECURSIVE map_yaml_to_env(_, _, _)
map_yaml_to_env(ambiente, config, campos) ==
    IF campos = {} THEN ambiente
    ELSE LET env_var == CHOOSE c \in campos : TRUE
             value == get_nested_value(config, mapping[env_var])
             \* os.environ[env_var] = str(value)
             depois == IF value /= Nulo
                       THEN [c \in DOMAIN ambiente \cup {env_var} |->
                                IF c = env_var THEN str(value) ELSE ambiente[c]]
                       ELSE ambiente
         IN  map_yaml_to_env(depois, config, campos \ {env_var})

\* Settings.__init__: the file is loaded and, unless it is empty, mapped to
\* the environment; then BaseSettings.__init__ gives each field the value of
\* its environment variable when there is one, its default otherwise.
Settings(ambiente, yaml_config) ==
    LET depois == IF DOMAIN yaml_config.filhos /= {}
                  THEN map_yaml_to_env(ambiente, yaml_config, CAMPOS)
                  ELSE ambiente
    IN  [environ |-> depois,
         settings |-> [c \in CAMPOS |->
                         IF c \in DOMAIN depois THEN interpreta(Campo[c].tipo, depois[c])
                         ELSE Campo[c].padrao]]

\* The environment the process is started in: any of the followed variables
\* may be set.
AmbientesValidos ==
    LET valores == [c \in CAMPOS |->
                       CASE c = "RAG_TOP_K" -> {"3", "5"}
                         [] c = "OPENSEARCH_USE_SSL" -> {"true"}
                         [] c = "OPENSEARCH_HOST" -> {"os"}]
        iniciais == UNION {[cs -> UNION {valores[c] : c \in cs}] : cs \in SUBSET CAMPOS}
    IN  {a \in iniciais : \A c \in DOMAIN a : a[c] \in valores[c]}

InitConfig ==
    /\ environ \in AmbientesValidos
    /\ settings = [c \in CAMPOS |-> Campo[c].padrao]
    /\ indice_existe = FALSE /\ store = <<>>
    /\ ult = SemChamada /\ ant = Resumo(SemChamada)

\* settings = Settings(), with whatever config.yaml holds at that moment.
ConstruirSettings ==
    /\ \E yaml_config \in ArquivosYaml :
        \E r \in {Settings(environ, yaml_config)} :
            /\ environ' = r.environ
            /\ settings' = r.settings
            /\ RegistraUltima([SemChamada EXCEPT !.op = "settings",
                                                 !.ambiente = environ,
                                                 !.yaml = yaml_config])
    /\ UNCHANGED <<indice_existe, store, tarefas>>
    /\ UNCHANGED <<varsExtracao, varsSimilar, varsProcesso>>

\* ---- claims about Settings ----
\* The value the config file gives a field, by its section and key.
NoArquivo(campo) ==
    LET caminho == mapping[campo]
        yaml == ult.yaml
    IN  /\ caminho[1] \in DOMAIN yaml.filhos
        /\ caminho[2] \in DOMAIN yaml.filhos[caminho[1]].filhos

\* C13: a setting given both by an environment variable and by the config
\* file takes the value of the environment variable.
C13_AmbienteVence ==
    ult.op = "settings" =>
        \A c \in CAMPOS :
            (c \in DOMAIN ult.ambiente /\ NoArquivo(c)) =>
                settings[c] = interpreta(Campo[c].tipo, ult.ambiente[c])

(***************************************************************************)
(* RAGChainService: query expansion, context retrieval, metadata re-rank   *)
(***************************************************************************)
\* termo in texto
contem(termo, texto_) ==
    \E i \in 1..(Len(texto_) - Len(termo) + 1) :
        SubSeq(texto_, i, i + Len(termo) - 1) = termo

\* mapeamento_leis, in the order the dictionary is written.
mapeamento_leis ==
    <<
     [termo |->
        <<"l", "e", "i", " ", "d", "e", " ", "i", "n", "t", "r", "o", "d", "u", "ç",
          "ã", "o">>,
      expansao |->
        <<"L", "e", "i", " ", "4", "6", "5", "7", " ", "L", "I", "N", "D", "B">>],
     [termo |->
        <<"l", "i", "n", "d", "b">>,
      expansao |->
        <<"L", "e", "i", " ", "4", "6", "5", "7", " ", "L", "e", "i", " ", "d", "e",
          " ", "I", "n", "t", "r", "o", "d", "u", "ç", "ã", "o", " ", "à", "s", " ",
          "N", "o", "r", "m", "a", "s", " ", "d", "o", " ", "D", "i", "r", "e", "i",
          "t", "o", " ", "B", "r", "a", "s", "i", "l", "e", "i", "r", "o">>],
     [termo |->
        <<"4", "6", "5", "7">>,
      expansao |->
        <<"L", "e", "i", " ", "4", "6", "5", "7", " ", "L", "I", "N", "D", "B", " ",
          "L", "e", "i", " ", "d", "e", " ", "I", "n", "t", "r", "o", "d", "u", "ç",
          "ã", "o">>],
     [termo |->
        <<"c", "ó", "d", "i", "g", "o", " ", "c", "i", "v", "i", "l">>,
      expansao |->
        <<"L", "e", "i", " ", "1", "0", "4", "0", "6", " ", "C", "ó", "d", "i", "g",
          "o", " ", "C", "i", "v", "i", "l">>],
     [termo |->
        <<"1", "0", "4", "0", "6">>,
      expansao |->
        <<"L", "e", "i", " ", "1", "0", "4", "0", "6", " ", "C", "ó", "d", "i", "g",
          "o", " ", "C", "i", "v", "i", "l">>],
     [termo |->
        <<"c", "o", "n", "s", "t", "i", "t", "u", "i", "ç", "ã", "o">>,
      expansao |->
        <<"C", "o", "n", "s", "t", "i", "t", "u", "i", "ç", "ã", "o", " ", "F", "e",
          "d", "e", "r", "a", "l", " ", "C", "F", "/", "8", "8">>],
     [termo |->
        <<"c", "f", "/", "8", "8">>,
      expansao |->
        <<"C", "o", "n", "s", "t", "i", "t", "u", "i", "ç", "ã", "o", " ", "F", "e",
          "d", "e", "r", "a", "l">>],
     [termo |->
        <<"c", "ó", "d", "i", "g", "o", " ", "p", "e", "n", "a", "l">>,
      expansao |->
        <<"D", "e", "c", "r", "e", "t", "o", "-", "L", "e", "i", " ", "2", "8", "4",
          "8", " ", "C", "ó", "d", "i", "g", "o", " ", "P", "e", "n", "a", "l">>],
     [termo |->
        <<"2", "8", "4", "8">>,
      expansao |->
        <<"D", "e", "c", "r", "e", "t", "o", "-", "L", "e", "i", " ", "2", "8", "4",
          "8", " ", "C", "ó", "d", "i", "g", "o", " ", "P", "e", "n", "a", "l">>]
    >>

\* Mutant: the text searched for a term is the query expanded so far.
texto_pesquisado_em_cascata(tema_lower, query_expandida) == lower(query_expandida)

\* if termo in tema_lower
texto_pesquisado(tema_lower, query_expandida) == tema_lower

\* The loop of _expandir_query_com_metadados from entry i of the mapping on.
RECURSIVE expande_de(_, _, _)
expande_de(tema_lower, query_expandida, i) ==
    IF i > Len(mapeamento_leis) THEN query_expandida
    ELSE LET m == mapeamento_leis[i]
             q == IF contem(m.termo, texto_pesquisado(tema_lower, query_expandida))
                  THEN query_expandida \o <<Espaco>> \o m.expansao
                  ELSE query_expandida
         IN  expande_de(tema_lower, q, i + 1)

expandir_query_com_metadados(tema) == expande_de(lower(tema), tema, 1)

\* Pieces the themes are put together from.
Pedaco ==
    [cf88 |-> <<"C", "F", "/", "8", "8">>,
     constituicao |-> <<"C", "o", "n", "s", "t", "i", "t", "u", "i", "ç", "ã", "o">>,
     lindb |-> <<"L", "I", "N", "D", "B">>,
     n4657 |-> <<"4", "6", "5", "7">>,
     codigo |-> <<"c", "ó", "d", "i", "g", "o", " ">>,
     civil |-> <<"C", "i", "v", "i", "l">>,
     penal |-> <<"p", "e", "n", "a", "l">>,
     espaco |-> <<" ">>,
     n46 |-> <<"4", "6">>,
     n57 |-> <<"5", "7">>]
Fragmentos == {Pedaco[n] : n \in DOMAIN Pedaco}

\* Themes: up to MaxFragmentos pieces, one after the other.
RECURSIVE Concatenacoes(_)
Concatenacoes(n) ==
    IF n = 0 THEN {<<>>}
    ELSE LET menores == Concatenacoes(n - 1)
         IN  menores \cup {t \o f : t \in menores, f \in Fragmentos}

Temas == Concatenacoes(MaxFragmentos)

InitRag ==
    /\ indice_existe = FALSE /\ store = <<>>
    /\ ult = SemChamada /\ ant = Resumo(SemChamada)

\* _expandir_query_com_metadados(tema)
ExpandirQuery ==
    /\ \E tema \in Temas :
        RegistraUltima([SemChamada EXCEPT
            !.op = "expandir_query", !.tema = tema,
            !.query_expandida = expandir_query_com_metadados(tema)])
    /\ UNCHANGED <<indice_existe, store>>
    /\ UNCHANGED foraStore

\* ---- claims about _expandir_query_com_metadados ----
\* The term occurs somewhere in the text.
Ocorre(termo, t) ==
    \E antes \in 0..Len(t) :
        /\ antes + Len(termo) <= Len(t)
        /\ \A j \in 1..Len(termo) : t[antes + j] = termo[j]

\* The entries of the mapping whose term occurs in the lower-cased theme.
Gatilhos(tema) ==
    {i \in DOMAIN mapeamento_leis : Ocorre(mapeamento_leis[i].termo, lower(tema))}

RECURSIVE Acrescimo(_)
Acrescimo(entradas) ==
    IF entradas = {} THEN 0
    ELSE LET i == CHOOSE i \in entradas : TRUE
         IN  1 + Len(mapeamento_leis[i].expansao) + Acrescimo(entradas \ {i})

\* C18: the expanded query is the theme followed, for each mapping entry whose
\* term occurs in the lower-cased theme and in the order of the mapping, by a
\* blank and that entry's expansion, once; with no such entry it is the theme.
C18_ExpansaoUmaVez ==
    ult.op = "expandir_query" =>
        LET tema == ult.tema
            q == ult.query_expandida
            g == Gatilhos(tema)
        IN  /\ g = {} => q = tema
            /\ Len(q) = Len(tema) + Acrescimo(g)
            /\ SubSeq(q, 1, Len(tema)) = tema
            /\ \A i \in g :
                LET inicio == Len(tema) + Acrescimo({j \in g : j < i})
                    e == mapeamento_leis[i].expansao
                IN  /\ q[inicio + 1] = Espaco
                    /\ SubSeq(q, inicio + 2, inicio + 1 + Len(e)) = e

\* A theme in capitals with the term cf/88 and, put together from two pieces,
\* the term 4657: both expansions follow the theme.
C18_Witness ==
    /\ ult.op = "expandir_query"
    /\ ult.tema = Pedaco.cf88 \o Pedaco.n46 \o Pedaco.n57
    /\ Cardinality(Gatilhos(ult.tema)) = 2
    /\ ult.query_expandida =
          ult.tema \o <<Espaco>> \o mapeamento_leis[3].expansao
                   \o <<Espaco>> \o mapeamento_leis[7].expansao

\* ---- _filtrar_por_metadados ----
\* The statute numbers and the statute names the re-rank looks for.
NUMEROS_DE_LEI ==
    {<<"4", "6", "5", "7">>,
     <<"1", "0", "4", "0", "6">>,
     <<"2", "8", "4", "8">>}
termos_relevantes ==
    {<<"i", "n", "t", "r", "o", "d", "u", "ç", "ã", "o">>,
     <<"l", "i", "n", "d", "b">>,
     <<"c", "i", "v", "i", "l">>,
     <<"p", "e", "n", "a", "l">>,
     <<"c", "o", "n", "s", "t", "i", "t", "u", "i", "ç", "ã", "o">>}

\* any(p in texto for p in palavras)
alguma_em(palavras, texto_) == \E p \in palavras : contem(p, texto_)

\* relevante, for one document: some statute number in the theme and some
\* statute number in titulo + fonte, or the same for the statute names.
relevante(doc, tema_lower) ==
    LET titulo == lower(doc.titulo)
        fonte == lower(doc.fonte)
    IN  \/ /\ alguma_em(NUMEROS_DE_LEI, tema_lower)
           /\ alguma_em(NUMEROS_DE_LEI, titulo \o fonte)
        \/ /\ alguma_em(termos_relevantes, tema_lower)
           /\ alguma_em(termos_relevantes, titulo \o fonte)

\* docs_relevantes + docs_outros
filtrar_por_metadados(docs, tema) ==
    LET tema_lower == lower(tema)
    IN  SelectSeq(docs, LAMBDA d : relevante(d, tema_lower))
        \o SelectSeq(docs, LAMBDA d : ~relevante(d, tema_lower))

\* Retrieved documents: the metadata the re-rank reads (a missing titulo or
\* fonte reads as the empty string) and the in-force flag.
Documento ==
    [lindb |-> [id |-> 1, titulo |-> <<"L", "e", "i", " ", "4", "6", "5", "7">>,
                fonte |-> <<>>, em_vigor |-> TRUE],
     civil |-> [id |-> 2,
                titulo |-> <<"C", "ó", "d", "i", "g", "o", " ", "C", "i", "v", "i", "l">>,
                fonte |-> <<"l", "e", "i", " ", "1", "0", "4", "0", "6">>,
                em_vigor |-> TRUE],
     penal |-> [id |-> 3,
                titulo |-> <<"C", "Ó", "D", "I", "G", "O", " ", "P", "E", "N", "A", "L">>,
                fonte |-> <<>>, em_vigor |-> FALSE],
     outro |-> [id |-> 4, titulo |-> <<"E", "s", "t", "a", "t", "u", "t", "o">>,
                fonte |-> <<>>, em_vigor |-> TRUE]]
Docs == {Documento[n] : n \in DOMAIN Documento}

\* Themes of a generation request.
Tema ==
    [lindb |-> <<"4", "6", "5", "7">>,
     civil |-> <<"D", "i", "r", "e", "i", "t", "o", " ", "C", "i", "v", "i", "l">>,
     penal |-> <<"2", "8", "4", "8", " ", "P", "E", "N", "A", "L">>,
     geral |-> <<"d", "i", "r", "e", "i", "t", "o">>]
TemasDeQuestao == {Tema[n] : n \in DOMAIN Tema}

\* Lists of distinct documents, up to MaxContexto of them.
Contextos ==
    {c \in SeqsUpTo(Docs, MaxContexto) : \A i, j \in DOMAIN c : c[i] = c[j] => i = j}

\* _filtrar_por_metadados(docs, tema)
FiltrarPorMetadados ==
    /\ \E docs \in Contextos, tema \in TemasDeQuestao :
        RegistraUltima([SemChamada EXCEPT
            !.op = "filtrar_por_metadados", !.tema = tema, !.entrada = docs,
            !.docs = filtrar_por_metadados(docs, tema)])
    /\ UNCHANGED <<indice_existe, store>>
    /\ UNCHANGED foraStore

\* ---- claims about _filtrar_por_metadados ----
\* One statute number or name occurs both in the document's titulo or fonte
\* and in the lower-cased theme.
MesmoTermo(doc, tema) ==
    \E p \in NUMEROS_DE_LEI \cup termos_relevantes :
        /\ Ocorre(p, lower(tema))
        /\ Ocorre(p, lower(doc.titulo)) \/ Ocorre(p, lower(doc.fonte))

\* The positions of s that satisfy the test come, in order, at the positions
\* of t from primeiro on.
MesmaOrdem(s, posicoes, t, primeiro) ==
    \A i \in posicoes :
        t[primeiro + Cardinality({j \in posicoes : j < i})] = s[i]

\* C20: the re-rank returns the documents that share a statute number or name
\* with the theme, in their input order, followed by the other documents in
\* their input order.
C20_ParticaoEstavel ==
    ult.op = "filtrar_por_metadados" =>
        LET s == ult.entrada
            t == ult.docs
            frente == {i \in DOMAIN s : MesmoTermo(s[i], ult.tema)}
            resto == DOMAIN s \ frente
        IN  /\ Len(t) = Len(s)
            /\ MesmaOrdem(s, frente, t, 1)
            /\ MesmaOrdem(s, resto, t, Cardinality(frente) + 1)

\* ---- _buscar_contexto_inteligente ----
\* The merge loop: a general result is appended when it is not in the list
\* yet and the list holds fewer than k documents.
RECURSIVE combina(_, _, _)
combina(docs_combinados, docs_geral, k) ==
    IF docs_geral = <<>> THEN docs_combinados
    ELSE LET doc == Head(docs_geral)
             ja_esta == \E i \in DOMAIN docs_combinados : docs_combinados[i] = doc
         IN  combina(IF ~ja_esta /\ Len(docs_combinados) < k
                        THEN Append(docs_combinados, doc)
                        ELSE docs_combinados,
                     Tail(docs_geral), k)

\* _buscar_contexto_inteligente(tema, k) over the index st, whose entry i the
\* engine scores sc[i] for the expanded query; each of the two searches may
\* fail in the engine (the action lets the first one fail).
buscar_contexto_inteligente(st, sc, tema, k, falha_vigor, falha_geral) ==
    LET query_expandida == expandir_query_com_metadados(tema)
        \* max(1, k // 2)
        k_em_vigor == IF k \div 2 >= 1 THEN k \div 2 ELSE 1
        ate(docs, n) == SubSeq(docs, 1, IF n < Len(docs) THEN n ELSE Len(docs))
        docs_de(posicoes) == [i \in DOMAIN posicoes |-> st[posicoes[i]]]
        docs_vigor == docs_de(buscar_similares(sc, k_em_vigor, "em_vigor", falha_vigor))
        docs_geral == docs_de(buscar_similares(sc, k, "nenhum", falha_geral))
        docs_combinados == combina(docs_vigor, docs_geral, k)
    IN  [query_expandida |-> query_expandida,
         docs_vigor |-> docs_vigor,
         docs_geral |-> docs_geral,
         docs_combinados |-> docs_combinados,
         retorno |-> IF docs_combinados /= <<>>
                     THEN ate(filtrar_por_metadados(docs_combinados, tema), k)
                     ELSE <<>>]

\* The index holds statute chunks, each a different document, one of them
\* of a vetoed article.
InitContexto ==
    /\ indice_existe = TRUE
    /\ store \in {c \in Contextos : \A i \in DOMAIN c :
                    c[i] \in {Documento.lindb, Documento.penal, Documento.outro}}
    /\ ult = SemChamada /\ ant = Resumo(SemChamada)

\* The limits tried are 1, 2 and the 5 question generation asks for.
BuscarContextoInteligente ==
    /\ \E tema \in {Tema.lindb, Tema.geral}, k \in {1, 2, 5},
          sc \in [DOMAIN store -> Pontuacoes], falha_vigor \in BOOLEAN :
        \E r \in {buscar_contexto_inteligente(store, sc, tema, k, falha_vigor, FALSE)} :
            RegistraUltima([SemChamada EXCEPT
                !.op = "buscar_contexto_inteligente", !.tema = tema, !.k = k,
                !.falha = falha_vigor,
                !.resultado_engine = sc,
                !.query_expandida = r.query_expandida,
                !.docs_vigor = r.docs_vigor, !.docs_geral = r.docs_geral,
                !.docs_combinados = r.docs_combinados, !.docs = r.retorno])
    /\ UNCHANGED <<indice_existe, store>>
    /\ UNCHANGED foraStore

\* ---- claims about _buscar_contexto_inteligente ----
Teto(k) == (k + 1) \div 2

\* C19: the merged context starts with the results of the search restricted
\* to documents in force, at most ceil(k/2) of them and each one in force,
\* goes on with the general results that are not among them, in their order,
\* and holds at most k documents.
C19_EmVigorPrimeiro ==
    ult.op = "buscar_contexto_inteligente" =>
        LET v == ult.docs_vigor
            c == ult.docs_combinados
            novos == SelectSeq(ult.docs_geral,
                               LAMBDA d : \A i \in DOMAIN v : v[i] /= d)
        IN  /\ Len(v) <= Teto(ult.k)
            /\ \A i \in DOMAIN v : v[i].em_vigor
            /\ Len(c) >= Len(v) /\ SubSeq(c, 1, Len(v)) = v
            /\ Len(c) <= ult.k
            /\ \A i \in (Len(v) + 1)..Len(c) : c[i] = novos[i - Len(v)]

\* ---- recriar_indice ----
\* recriar_indice: deletar_indice, whose result is dropped, then criar_indice.
\* Either call may fail in the engine; a failed delete leaves the index and
\* its entries as they were.
RecriarIndice ==
    /\ \E falha_deletar, falha_exists, falha_create \in BOOLEAN :
        LET deletou == ~falha_deletar
            existe == IF deletou THEN FALSE ELSE indice_existe
            entradas == IF deletou THEN <<>> ELSE store
            chamada == [SemChamada EXCEPT !.op = "recriar_indice"]
        IN  IF falha_exists
               THEN /\ Registra([chamada EXCEPT !.falha = TRUE])
                    /\ indice_existe' = existe
                    /\ store' = entradas
            ELSE IF indice_presente(existe)
               THEN /\ Registra([chamada EXCEPT !.retorno = TRUE])
                    /\ indice_existe' = existe
                    /\ store' = entradas
            ELSE IF falha_create
               THEN /\ Registra([chamada EXCEPT !.pediu_criar = TRUE, !.falha = TRUE])
                    /\ indice_existe' = FALSE
                    /\ store' = entradas
            ELSE /\ Registra([chamada EXCEPT !.pediu_criar = TRUE, !.retorno = TRUE])
                 /\ indice_existe' = TRUE
                 /\ store' = entradas
    /\ UNCHANGED foraStore

\* ---- claims about deletar_indice and recriar_indice ----
\* C29: deleting an index that is absent changes nothing and returns true,
\* and a recreate that returns true has issued the create request for the
\* index that exists afterwards, which holds none of the earlier entries.
C29_RecriarCriaNovo ==
    [][/\ (ult'.op = "deletar_indice" /\ ~indice_existe /\ ~ult'.falha) =>
            (ult'.retorno /\ ~indice_existe' /\ store' = store)
       /\ (ult'.op = "recriar_indice" /\ ult'.retorno) =>
            (ult'.pediu_criar /\ indice_existe' /\ store' = <<>>)]_vars

(***************************************************************************)
(* Concurrent responder_pergunta requests                                  *)
(*                                                                         *)
(* A request handler gives up control at each await: after the cache       *)
(* lookup, after the answering chain and after the save.  Two requests     *)
(* with the same question are in flight.                                   *)
(***************************************************************************)
\* Mutant: an entry with the same question is replaced by the new one.
adicionar_ou_substituir(st, entrada) ==
    IF \E i \in DOMAIN st : st[i].tipo = entrada.tipo /\ st[i].pergunta = entrada.pergunta
       THEN [i \in DOMAIN st |->
                IF st[i].tipo = entrada.tipo /\ st[i].pergunta = entrada.pergunta
                   THEN entrada ELSE st[i]]
       ELSE Append(st, entrada)

\* self._vectorstore.add_documents(documentos): a new entry of the index.
adicionar(st, entrada) == Append(st, entrada)

InitPedidos ==
    /\ indice_existe = TRUE
    /\ store \in {<<>>, <<EntradaArtigo(TRUE)>>}
    /\ ult = SemChamada /\ ant = Resumo(SemChamada)
    /\ \E q \in PerguntasValidas :
        pedidos = [p \in {1, 2} |->
                      [fase |-> "busca", pergunta |-> q, gravou |-> FALSE,
                       resposta |-> SemResposta]]

\* resposta_existente = await self._buscar_resposta_existente(request.pergunta)
BuscarCache ==
    /\ \E p \in DOMAIN pedidos, busca \in Buscas(store) :
        /\ pedidos[p].fase = "busca"
        /\ \E fonte \in {buscar_resposta_existente(store, pedidos[p].pergunta, busca)} :
            pedidos' = [pedidos EXCEPT ![p] =
                IF fonte /= 0
                   THEN [@ EXCEPT !.fase = "fim",
                                  !.resposta = [sucesso |-> TRUE, pergunta |-> @.pergunta,
                                                resposta_correta |-> store[fonte].resposta_correta,
                                                dicas_estudo |-> store[fonte].dicas_estudo]]
                   ELSE [@ EXCEPT !.fase = "gera"]]
    /\ UNCHANGED <<varsStore, servico, arranque>>
    /\ UNCHANGED <<varsExtracao, varsSimilar, tarefas, varsConfig>>

\* resultado = await self.rag_chain.responder_questao(...), the response
\* model, and "if response.sucesso".
GerarResposta ==
    /\ \E p \in DOMAIN pedidos, llm \in RespostasLLM :
        /\ pedidos[p].fase = "gera"
        /\ LET response == [sucesso |-> llm.tipo = "ok", pergunta |-> pedidos[p].pergunta,
                            resposta_correta |-> llm.resposta_correta,
                            dicas_estudo |-> llm.dicas_estudo]
           IN  pedidos' = [pedidos EXCEPT ![p] =
                   IF llm.tipo = "invalido"
                      THEN [@ EXCEPT !.fase = "fim",
                                     !.resposta = [SemResposta EXCEPT !.pergunta = pedidos[p].pergunta]]
                   ELSE IF deve_salvar(response)
                      THEN [@ EXCEPT !.fase = "salva", !.resposta = response]
                   ELSE [@ EXCEPT !.fase = "fim", !.resposta = response]]
    /\ UNCHANGED <<varsStore, servico, arranque>>
    /\ UNCHANGED <<varsExtracao, varsSimilar, tarefas, varsConfig>>

\* await self._salvar_resposta(request, response); a rejected ingestion is
\* swallowed.
SalvarResposta ==
    /\ \E p \in DOMAIN pedidos, falha_salvar \in BOOLEAN :
        /\ pedidos[p].fase = "salva"
        /\ pedidos' = [pedidos EXCEPT ![p] = [@ EXCEPT !.fase = "fim",
                                                       !.gravou = ~falha_salvar]]
        /\ store' = IF falha_salvar THEN store
                    ELSE adicionar(store, EntradaResposta(pedidos[p].pergunta,
                                                          pedidos[p].resposta))
    /\ UNCHANGED <<indice_existe, ult, ant, servico, arranque>>
    /\ UNCHANGED <<varsExtracao, varsSimilar, tarefas, varsConfig>>

\* ---- claims about concurrent requests ----
\* C21: whatever the interleaving of the two requests, an entry of the index
\* is never changed or removed: every step leaves the earlier entries where
\* they were.
C21_IndiceSoCresce ==
    [][/\ Len(store') >= Len(store)
       /\ SubSeq(store', 1, Len(store)) = store]_vars

\* Both requests missed the cache and both persisted an answer to the same
\* question: the index holds the two entries.
C21_Witness ==
    /\ \A p \in DOMAIN pedidos : pedidos[p].fase = "fim" /\ pedidos[p].gravou
    /\ pedidos /= <<>>
    /\ Cardinality({i \in DOMAIN store : /\ store[i].tipo = "resposta"
                                         /\ store[i].pergunta = pedidos[1].pergunta}) = 2
    /\ pedidos[1].resposta.resposta_correta /= pedidos[2].resposta.resposta_correta

(***************************************************************************)
(* VectorStoreService: construction                                        *)
(*                                                                         *)
(* __new__ and __init__ hold no await, so under the cooperative scheduling *)
(* of the event loop a construction runs as one step, between the steps of *)
(* the other tasks.  servico is the state of the class: how many objects   *)
(* were created, the _initialized flag, how many times the initialization  *)
(* was entered and how many times it ran to its end.                       *)
(***************************************************************************)
\* Mutant: the flag is not consulted.
precisa_inicializar_sempre(initialized) == TRUE

\* if not self._initialized
precisa_inicializar(initialized) == ~initialized

\* VectorStoreService(): __new__ creates the object when _instance is None;
\* __init__ initializes it unless it is initialized, and an exception of
\* get_embeddings or _initialize_client leaves the flag as it was.
Construir ==
    /\ \E levanta \in BOOLEAN :
        LET instancias == IF servico.instancias = 0 THEN 1 ELSE servico.instancias
            entra == precisa_inicializar(servico.initialized)
        IN  /\ entra => servico.tentativas < MaxTentativas
            /\ levanta => entra
            /\ servico' =
                  [instancias |-> instancias,
                   initialized |-> IF entra /\ ~levanta THEN TRUE ELSE servico.initialized,
                   tentativas |-> IF entra THEN servico.tentativas + 1 ELSE servico.tentativas,
                   inicializacoes |-> IF entra /\ ~levanta THEN servico.inicializacoes + 1
                                      ELSE servico.inicializacoes]
            /\ Registra([SemChamada EXCEPT !.op = "construir", !.falha = levanta,
                                           !.retorno = ~levanta, !.entrou = entra])
    /\ UNCHANGED <<indice_existe, store, pedidos, arranque>>
    /\ UNCHANGED <<varsExtracao, varsSimilar, tarefas, varsConfig>>

\* The calls other tasks make on the initialized service between two
\* constructions.
UsarServico ==
    /\ servico.initialized
    /\ \/ CriarIndice
       \/ DeletarIndice
       \/ AdicionarDocumentos

InitServico ==
    /\ servico = [instancias |-> 0, initialized |-> FALSE, tentativas |-> 0,
                  inicializacoes |-> 0]
    /\ indice_existe \in BOOLEAN
    /\ store = <<>>
    /\ ult = SemChamada /\ ant = Resumo(SemChamada)

InitIndexar ==
    /\ indice_existe \in BOOLEAN
    /\ store = <<>>
    /\ ult = SemChamada
    /\ ant = Resumo(SemChamada)

IndexarDocumentos ==
    /\ Len(store) < MaxDocs
    /\ \E documentos \in
              SeqsUpTo({[tipo |-> "artigo_completo", numero |-> TokArt(1, FALSE, FALSE),
                         em_vigor |-> v, parte |-> 0, palavras |-> <<Palavra(1)>>] :
                            v \in BOOLEAN}, 2),
          conexao, falha_criar, falha_adicionar \in BOOLEAN :
        \E r \in {indexar_documentos(indice_existe, store, documentos,
                      [conexao |-> conexao, falha_criar |-> falha_criar,
                       falha_adicionar |-> falha_adicionar,
                       falha_listar |-> FALSE, falha_json |-> FALSE])} :
            /\ Registra([SemChamada EXCEPT
                    !.op = "indexar_documentos", !.retorno = r.ok,
                    !.documentos = documentos, !.passos = r.passos])
            /\ indice_existe' = r.indice_existe
            /\ store' = r.store
    /\ UNCHANGED foraStore

\* ---- claims about indexar_documentos ----
\* C23: indexar_documentos hands the documents to ingestion only after the
\* connectivity check succeeded and the index was ensured; when the
\* connectivity check or the index creation fails, ingestion is not
\* attempted and false is returned; true is returned only if ingestion
\* returned at least one id.
C23_IngereSoComIndice ==
    ult.op = "indexar_documentos" =>
        /\ ult.passos.pediu_adicionar => (ult.passos.conexao /\ ult.passos.criou)
        /\ (~ult.passos.conexao \/ ~ult.passos.criou) =>
               (~ult.passos.pediu_adicionar /\ ~ult.retorno)
        /\ ult.retorno => ult.passos.ids >= 1

(***************************************************************************)
(* main.py: lifespan, up to its yield                                      *)
(***************************************************************************)
proxima_fase_que_aborta(posicao, ok) ==
    IF ~ok THEN "abortado"
    ELSE IF posicao = "inicio" THEN "ollama"
    ELSE IF posicao = "ollama" THEN "construido"
    ELSE IF posicao = "construido" THEN "conectado"
    ELSE IF posicao = "conectado" THEN "indice"
    ELSE "servindo"

\* Where lifespan stands after the call it made in posicao answered ok: only
\* the answer of verificar_conexao is branched on, a failed ping going to the
\* yield at once; the answers of verificar_ollama and contar_documentos are
\* logged, that of criar_indice is dropped.
proxima_fase(posicao, ok) ==
    IF posicao = "inicio" THEN "ollama"
    ELSE IF posicao = "ollama" THEN "construido"
    ELSE IF posicao = "construido" THEN IF ok THEN "conectado" ELSE "servindo"
    ELSE IF posicao = "conectado" THEN "indice"
    ELSE "servindo"

\* The process has imported vectorstore_service, whose module-level
\* VectorStoreService() initialized the singleton; the engine holds any index.
InitArranque ==
    /\ arranque = [fase |-> "inicio", registro |-> <<>>, ollama |-> FALSE,
                   conexao |-> FALSE, total_docs |-> 0]
    /\ store \in SeqsUpTo({EntradaArtigo(v) : v \in BOOLEAN}, 2)
    /\ indice_existe \in BOOLEAN
    /\ store /= <<>> => indice_existe
    /\ ult = SemChamada
    /\ ant = Resumo(SemChamada)

Avanca(passo, ok) ==
    [arranque EXCEPT !.fase = proxima_fase(arranque.fase, ok),
                     !.registro = Append(arranque.registro, passo)]

\* verificar_ollama swallows every error and answers a mapping.
VerificarOllama ==
    /\ arranque.fase = "inicio"
    /\ \E disponivel \in BOOLEAN :
        /\ arranque' = [Avanca("verificar_ollama", disponivel) EXCEPT !.ollama = disponivel]
        /\ Registra([SemChamada EXCEPT !.op = "verificar_ollama", !.retorno = disponivel])
    /\ UNCHANGED <<indice_existe, store, tarefas, pedidos, servico>>
    /\ UNCHANGED <<varsExtracao, varsSimilar, varsConfig>>

\* VectorStoreService() hands back the initialized singleton.
ObterVectorStore ==
    /\ arranque.fase = "ollama"
    /\ arranque' = Avanca("VectorStoreService", TRUE)
    /\ Registra([SemChamada EXCEPT !.op = "construir", !.retorno = TRUE])
    /\ UNCHANGED <<indice_existe, store, tarefas, pedidos, servico>>
    /\ UNCHANGED <<varsExtracao, varsSimilar, varsConfig>>

\* verificar_conexao: the ping's answer, false when it raises.
VerificarConexao ==
    /\ arranque.fase = "construido"
    /\ \E conexao \in BOOLEAN :
        /\ arranque' = [Avanca("verificar_conexao", conexao) EXCEPT !.conexao = conexao]
        /\ Registra([SemChamada EXCEPT !.op = "verificar_conexao", !.retorno = conexao])
    /\ UNCHANGED <<indice_existe, store, tarefas, pedidos, servico>>
    /\ UNCHANGED <<varsExtracao, varsSimilar, varsConfig>>

\* await vectorstore.criar_indice()
CriarIndiceNoArranque ==
    /\ arranque.fase = "conectado"
    /\ \E falha \in BOOLEAN :
        LET criado == indice_presente(indice_existe) \/ ~falha
        IN  /\ arranque' = Avanca("criar_indice", criado)
            /\ indice_existe' = criado
            /\ Registra([SemChamada EXCEPT !.op = "criar_indice", !.retorno = criado,
                                           !.falha = falha,
                                           !.pediu_criar = ~indice_presente(indice_existe)])
    /\ UNCHANGED <<store, tarefas, pedidos, servico>>
    /\ UNCHANGED <<varsExtracao, varsSimilar, varsConfig>>

\* contar_documentos: the engine's count, 0 when the request raises.
ContarDocumentos ==
    /\ arranque.fase = "indice"
    /\ \E falha \in BOOLEAN :
        LET total == IF falha THEN 0 ELSE Len(store)
        IN  /\ arranque' = [Avanca("contar_documentos", ~falha) EXCEPT !.total_docs = total]
            /\ Registra([SemChamada EXCEPT !.op = "contar_documentos", !.falha = falha,
                                           !.retorno = ~falha])
    /\ UNCHANGED <<indice_existe, store, tarefas, pedidos, servico>>
    /\ UNCHANGED <<varsExtracao, varsSimilar, varsConfig>>

\* ---- claims about startup ----
FezPasso(passo) == \E i \in DOMAIN arranque.registro : arranque.registro[i] = passo

\* C30: startup always reaches the serving state, whatever the LLM endpoint
\* and the vector store answer: the calls are made in the order LLM check,
\* vector store, index creation, document count; index creation and the
\* count are made only after the connectivity check succeeded; and no
\* failure stops the sequence before it serves.
C30_ArranqueSempreServe ==
    /\ <>(arranque.fase = "servindo")
    /\ [](/\ arranque.registro =
                SubSeq(<<"verificar_ollama", "VectorStoreService", "verificar_conexao",
                         "criar_indice", "contar_documentos">>,
                       1, Len(arranque.registro))
          /\ (FezPasso("criar_indice") \/ FezPasso("contar_documentos")) => arranque.conexao
          /\ arranque.fase \in {"inicio", "ollama", "construido", "conectado", "indice",
                                "servindo"}
          /\ arranque.fase = "servindo" => FezPasso("verificar_conexao"))

C30_Witness ==
    /\ arranque.fase = "servindo"
    /\ ~arranque.ollama
    /\ ~arranque.conexao
    /\ arranque.registro = <<"verificar_ollama", "VectorStoreService", "verificar_conexao">>

(***************************************************************************)
(* Idle values of the state each specification does not use                *)
(***************************************************************************)
IdleExtracao ==
    /\ texto = <<>> /\ pdf_abre = FALSE /\ artigos = <<>> /\ fase = "fora"

IdleSimilar ==
    /\ pergunta1 = <<>> /\ pergunta2 = <<>> /\ similar = FALSE /\ faseSimilar = "fora"

IdleStore ==
    /\ indice_existe = FALSE /\ store = <<>> /\ ult = SemChamada
    /\ ant = Resumo(SemChamada)

IdleTarefas == tarefas = <<>>

IdleConfig == environ = <<>> /\ settings = <<>>

IdleProcesso == pedidos = <<>> /\ servico = <<>> /\ arranque = <<>>

(***************************************************************************)
(* Specifications                                                          *)
(***************************************************************************)
InitSpecExtracao == InitExtracao /\ IdleSimilar /\ IdleStore /\ IdleTarefas /\ IdleConfig /\ IdleProcesso
NextExtracao == ProcessarPdf
SpecExtracao == InitSpecExtracao /\ [][NextExtracao]_vars

InitSpecSimilar == InitSimilar /\ IdleExtracao /\ IdleStore /\ IdleTarefas /\ IdleConfig /\ IdleProcesso
NextSimilar == Comparar
SpecSimilar == InitSpecSimilar /\ [][NextSimilar]_vars

InitSpecVectorStore == InitVectorStore /\ IdleExtracao /\ IdleSimilar /\ IdleTarefas /\ IdleConfig /\ IdleProcesso
NextVectorStore ==
    \/ CriarIndice
    \/ DeletarIndice
    \/ AdicionarDocumentos
    \/ BuscarSimilares
SpecVectorStore == InitSpecVectorStore /\ [][NextVectorStore]_vars

InitSpecPerguntas == InitPerguntas /\ IdleExtracao /\ IdleSimilar /\ IdleTarefas /\ IdleConfig /\ IdleProcesso
NextPerguntas == ResponderPergunta
SpecPerguntas == InitSpecPerguntas /\ [][NextPerguntas]_vars

InitSpecValidar == InitValidar /\ IdleExtracao /\ IdleSimilar /\ IdleTarefas /\ IdleConfig /\ IdleProcesso
NextValidar == ValidarResposta
SpecValidar == InitSpecValidar /\ [][NextValidar]_vars

InitSpecGerar == InitValidar /\ IdleExtracao /\ IdleSimilar /\ IdleTarefas /\ IdleConfig /\ IdleProcesso
NextGerar == CriarPerguntas
SpecGerar == InitSpecGerar /\ [][NextGerar]_vars

InitSpecChunks == InitChunks /\ IdleSimilar /\ IdleStore /\ IdleTarefas /\ IdleConfig /\ IdleProcesso
NextChunks == CriarChunks
SpecChunks == InitSpecChunks /\ [][NextChunks]_vars

InitSpecDocumentos == InitDocumentos /\ IdleExtracao /\ IdleSimilar /\ IdleConfig /\ IdleProcesso
NextDocumentos ==
    \/ ProcessarDocumentos
    \/ ProcessarDocumentosBackground
    \/ ExecutarTarefa
    \/ Main
SpecDocumentos == InitSpecDocumentos /\ [][NextDocumentos]_vars

InitSpecConfig == InitConfig /\ IdleExtracao /\ IdleSimilar /\ IdleTarefas /\ IdleProcesso
NextConfig == ConstruirSettings
SpecConfig == InitSpecConfig /\ [][NextConfig]_vars

InitSpecExpansao == InitRag /\ IdleExtracao /\ IdleSimilar /\ IdleTarefas /\ IdleConfig /\ IdleProcesso
NextExpansao == ExpandirQuery
SpecExpansao == InitSpecExpansao /\ [][NextExpansao]_vars

InitSpecFiltro == InitRag /\ IdleExtracao /\ IdleSimilar /\ IdleTarefas /\ IdleConfig /\ IdleProcesso
NextFiltro == FiltrarPorMetadados
SpecFiltro == InitSpecFiltro /\ [][NextFiltro]_vars

InitSpecContexto == InitContexto /\ IdleExtracao /\ IdleSimilar /\ IdleTarefas /\ IdleConfig /\ IdleProcesso
NextContexto == BuscarContextoInteligente
SpecContexto == InitSpecContexto /\ [][NextContexto]_vars

InitSpecRecriar == InitVectorStore /\ IdleExtracao /\ IdleSimilar /\ IdleTarefas /\ IdleConfig /\ IdleProcesso
NextRecriar ==
    \/ CriarIndice
    \/ DeletarIndice
    \/ AdicionarDocumentos
    \/ BuscarSimilares
    \/ RecriarIndice
SpecRecriar == InitSpecRecriar /\ [][NextRecriar]_vars

InitSpecPedidos == InitPedidos /\ IdleExtracao /\ IdleSimilar /\ IdleTarefas /\ IdleConfig /\ servico = <<>> /\ arranque = <<>>
NextPedidos ==
    \/ BuscarCache
    \/ GerarResposta
    \/ SalvarResposta
SpecPedidos == InitSpecPedidos /\ [][NextPedidos]_vars

InitSpecServico == InitServico /\ IdleExtracao /\ IdleSimilar /\ IdleTarefas /\ IdleConfig /\ pedidos = <<>> /\ arranque = <<>>
NextServico ==
    \/ Construir
    \/ UsarServico
SpecServico == InitSpecServico /\ [][NextServico]_vars

InitSpecIndexar == InitIndexar /\ IdleExtracao /\ IdleSimilar /\ IdleTarefas /\ IdleConfig /\ IdleProcesso
NextIndexar == IndexarDocumentos \/ DeletarIndice
SpecIndexar == InitSpecIndexar /\ [][NextIndexar]_vars

InitSpecArranque == InitArranque /\ IdleExtracao /\ IdleSimilar /\ IdleTarefas /\ IdleConfig /\ pedidos = <<>> /\ servico = <<>>
NextArranque ==
    \/ VerificarOllama
    \/ ObterVectorStore
    \/ VerificarConexao
    \/ CriarIndiceNoArranque
    \/ ContarDocumentos
SpecArranque == InitSpecArranque /\ [][NextArranque]_vars

\* The event loop runs the lifespan coroutine until its yield: every awaited
\* call returns or raises (the HTTP clients carry timeouts), so a step that
\* can be taken is taken.
SpecArranqueJusto == SpecArranque /\ WF_vars(NextArranque)

====
